---- MODULE Spec2Model ----
(***************************************************************************)
(* Atmospheric Harvester: the weather Event Engine                         *)
(* (game/weather_events.py) driven by the game state (game/state.py) and   *)
(* the timer-driven weather poll of main.py, and the weather providers     *)
(* behind the poll: network/weather_service.py, network/nws_client.py,     *)
(* network/open_meteo.py and network/gfs_client.py.                        *)
(*                                                                         *)
(* Units.  Times are whole seconds.  Event modifiers and the frequency     *)
(* multiplier are kept in tenths (1.2 is 12), latitude in 1/10000 degree,  *)
(* the random draw of the aurora rule in 1/10000.  A comparison            *)
(*   x > T * freq_adj      with freq_adj = 1.0 / frequency_multiplier      *)
(* is evaluated exactly as  x * m > T * 10  (m the multiplier in tenths).  *)
(***************************************************************************)
EXTENDS Integers, Sequences, FiniteSets, TLC

VARIABLES
    now,                  \* the wall clock read by time.time()
    game_state,           \* GameState: the attributes the engine reads
    active_events,        \* WeatherEventManager.active_events
    event_history,        \* WeatherEventManager.event_history
    last_rain_time,       \* WeatherEventManager.last_rain_time
    heatwave_start_time,  \* WeatherEventManager.heatwave_start_time
    cold_start_time,      \* WeatherEventManager.cold_start_time
    frequency_multiplier, \* WeatherEventManager.frequency_multiplier (tenths)
    raised,               \* update() ended with an exception ("" = none)
    last_weather_poll,    \* AsyncGameLoop.last_weather_poll
    _gridpoint_cache,     \* NWSClient._gridpoint_cache
    _cache_metadata,      \* GFSClient._cache_metadata (and metadata.json)
    cache_files,          \* the files <cache_key>.json of GFSClient.cache_dir
    _last_source,         \* WeatherService._last_source
    last_call,            \* the last provider call: arguments, requests, result
    game                  \* Game and the rest of GameState: resources, grid, position

net_vars == <<_gridpoint_cache, _cache_metadata, cache_files, _last_source,
              last_call>>

engine_vars == <<game, game_state, active_events, event_history, last_rain_time,
                 heatwave_start_time, cold_start_time, frequency_multiplier,
                 raised, last_weather_poll>>

vars == <<now, engine_vars, net_vars>>

-----------------------------------------------------------------------------
(* Bounds of the exploration *)

T0 == 1700000000          \* clock reading at construction
TickUnit == 30 * 60       \* granularity of the modelled clock
MaxTicks == 2             \* clock steps explored by Spec
MaxHistTicks == 9         \* clock steps explored by SpecHist
MaxHeatTicks == 14        \* clock steps explored by SpecHeat
MaxFreqTicks == 1         \* clock steps explored by SpecFreq

-----------------------------------------------------------------------------
(* Enumerations *)

MINOR == "minor"
MODERATE == "moderate"
SEVERE == "severe"
EXTREME == "extreme"

EventSeverity == {MINOR, MODERATE, SEVERE, EXTREME}

THUNDERSTORM == "thunderstorm"
HEATWAVE == "heatwave"
BLIZZARD == "blizzard"
DROUGHT == "drought"
WINDSTORM == "windstorm"
DUST_STORM == "dust_storm"
FOG == "fog"
TORNADO_WARNING == "tornado_warning"
HURRICANE == "hurricane"
COLD_SNAP == "cold_snap"
FLASH_FLOOD == "flash_flood"
AURORA == "aurora"

EventType == {THUNDERSTORM, HEATWAVE, BLIZZARD, DROUGHT, WINDSTORM, DUST_STORM,
              FOG, TORNADO_WARNING, HURRICANE, COLD_SNAP, FLASH_FLOOD, AURORA}

max_history == 20

POLL_INTERVAL == 600

-----------------------------------------------------------------------------
(* WeatherEvent *)

WeatherEvent(uid, event_type, severity, start_time, duration, description, mods) ==
    [uid |-> uid, event_type |-> event_type, severity |-> severity,
     start_time |-> start_time, duration |-> duration,
     description |-> description, warning_issued |-> FALSE,
     wind_modifier |-> mods[1], solar_modifier |-> mods[2],
     hydro_modifier |-> mods[3]]

\* mutant of is_active: an event that has run for exactly its duration
\* still counts as active
is_active_le(e, t) == t - e.start_time <= e.duration

is_active(e, t) == t - e.start_time < e.duration

\* description strings: the built-in text of a type, or the alert override
DefaultDescription(event_type) == <<"default", event_type>>

AlertDescription(name) == <<"NOAA Alert: ", name>>

-----------------------------------------------------------------------------
(* Event creation methods; t is the reading of time.time() *)

_create_thunderstorm(severity, t) ==
    LET modifiers == [s \in EventSeverity |->
                        CASE s = MINOR    -> <<12, 8, 13>>
                          [] s = MODERATE -> <<13, 7, 15>>
                          [] s = SEVERE   -> <<14, 5, 18>>
                          [] s = EXTREME  -> <<15, 3, 20>>]
        durations == [s \in EventSeverity |->
                        CASE s = MINOR    -> 1800
                          [] s = MODERATE -> 3600
                          [] s = SEVERE   -> 5400
                          [] s = EXTREME  -> 7200]
    IN WeatherEvent(<<"thunderstorm", t>>, THUNDERSTORM, severity, t,
                    durations[severity], DefaultDescription(THUNDERSTORM),
                    modifiers[severity])

_create_heatwave(severity, t) ==
    LET modifiers == [s \in EventSeverity |->
                        CASE s = MINOR    -> <<9, 12, 8>>
                          [] s = MODERATE -> <<8, 14, 7>>
                          [] s = SEVERE   -> <<7, 16, 6>>
                          [] s = EXTREME  -> <<6, 18, 5>>]
    IN WeatherEvent(<<"heatwave", t>>, HEATWAVE, severity, t, 14400,
                    DefaultDescription(HEATWAVE), modifiers[severity])

_create_blizzard(severity, t) ==
    LET modifiers == [s \in EventSeverity |->
                        CASE s = MINOR    -> <<8, 5, 11>>
                          [] s = MODERATE -> <<7, 4, 12>>
                          [] s = SEVERE   -> <<5, 2, 13>>
                          [] s = EXTREME  -> <<3, 1, 15>>]
    IN WeatherEvent(<<"blizzard", t>>, BLIZZARD, severity, t, 10800,
                    DefaultDescription(BLIZZARD), modifiers[severity])

_create_windstorm(severity, t) ==
    LET modifiers == [s \in EventSeverity |->
                        CASE s = MINOR    -> <<14, 9, 10>>
                          [] s = MODERATE -> <<16, 8, 10>>
                          [] s = SEVERE   -> <<18, 7, 10>>
                          [] s = EXTREME  -> <<20, 6, 10>>]
    IN WeatherEvent(<<"windstorm", t>>, WINDSTORM, severity, t, 5400,
                    DefaultDescription(WINDSTORM), modifiers[severity])

_create_drought(severity, t) ==
    LET mods == CASE severity = MODERATE -> <<10, 11, 3>>
                  [] severity = SEVERE   -> <<10, 12, 1>>
                  [] OTHER               -> <<10, 10, 5>>
    IN WeatherEvent(<<"drought", t>>, DROUGHT, severity, t, 86400,
                    DefaultDescription(DROUGHT), mods)

_create_dust_storm(severity, t) ==
    WeatherEvent(<<"dust_storm", t>>, DUST_STORM, severity, t, 7200,
                 DefaultDescription(DUST_STORM), <<12, 4, 8>>)

_create_fog(severity, t) ==
    WeatherEvent(<<"fog", t>>, FOG, severity, t, 5400,
                 DefaultDescription(FOG), <<8, 6, 11>>)

_create_tornado_warning(severity, t) ==
    WeatherEvent(<<"tornado", t>>, TORNADO_WARNING, severity, t, 1800,
                 DefaultDescription(TORNADO_WARNING), <<0, 0, 0>>)

_create_hurricane(severity, t) ==
    WeatherEvent(<<"hurricane", t>>, HURRICANE, severity, t, 21600,
                 DefaultDescription(HURRICANE), <<5, 2, 25>>)

_create_cold_snap(severity, t) ==
    LET modifiers == [s \in EventSeverity |->
                        CASE s = MINOR    -> <<9, 8, 9>>
                          [] s = MODERATE -> <<8, 7, 8>>
                          [] s = SEVERE   -> <<7, 6, 7>>
                          [] s = EXTREME  -> <<5, 4, 6>>]
    IN WeatherEvent(<<"cold_snap", t>>, COLD_SNAP, severity, t, 14400,
                    DefaultDescription(COLD_SNAP), modifiers[severity])

_create_flash_flood(severity, t) ==
    WeatherEvent(<<"flash_flood", t>>, FLASH_FLOOD, severity, t, 3600,
                 DefaultDescription(FLASH_FLOOD), <<7, 3, 30>>)

_create_aurora(severity, t) ==
    WeatherEvent(<<"aurora", t>>, AURORA, severity, t, 10800,
                 DefaultDescription(AURORA), <<12, 15, 11>>)

-----------------------------------------------------------------------------
(* Attribute and dictionary access *)

HasAttr(obj, name) == name \in DOMAIN obj

GetAttr(obj, name, default) == IF name \in DOMAIN obj THEN obj[name] ELSE default

DictGet(d, key, default) == IF key \in DOMAIN d THEN d[key] ELSE default

Abs(x) == IF x < 0 THEN -x ELSE x

Min(a, b) == IF a <= b THEN a ELSE b

Range(seq) == {seq[i] : i \in 1..Len(seq)}

\* x > T * freq_adj  and  x < T * freq_adj,  freq_adj = 1.0 / (m / 10)
Above(x, T, m) == x * m > T * 10

Below(x, T, m) == x * m < T * 10

-----------------------------------------------------------------------------
(* Severity classification *)

_determine_thunderstorm_severity(state) ==
    LET cape == GetAttr(state, "cape", 0)
    IN IF cape > 4000 \/ state.weather_code >= 99 THEN EXTREME
       ELSE IF cape > 2500 \/ state.weather_code >= 97 THEN SEVERE
       ELSE IF cape > 1500 THEN MODERATE
       ELSE MINOR

\* mutant of _determine_heatwave_severity: the boundaries are inclusive
_determine_heatwave_severity_ge(state) ==
    LET temp == state.temp_c
    IN IF temp >= 45 THEN EXTREME
       ELSE IF temp >= 40 THEN SEVERE
       ELSE IF temp >= 37 THEN MODERATE
       ELSE MINOR

_determine_heatwave_severity(state) ==
    LET temp == state.temp_c
    IN IF temp > 45 THEN EXTREME
       ELSE IF temp > 40 THEN SEVERE
       ELSE IF temp > 37 THEN MODERATE
       ELSE MINOR

_determine_blizzard_severity(state) ==
    LET wind == state.wind_speed
    IN IF wind > 30 THEN EXTREME
       ELSE IF wind > 25 THEN SEVERE
       ELSE IF wind > 20 THEN MODERATE
       ELSE MINOR

_determine_windstorm_severity(state) ==
    LET wind == state.wind_speed
    IN IF wind > 40 THEN EXTREME
       ELSE IF wind > 35 THEN SEVERE
       ELSE IF wind > 30 THEN MODERATE
       ELSE MINOR

_determine_cold_snap_severity(state) ==
    LET temp == state.temp_c
    IN IF temp < -30 THEN EXTREME
       ELSE IF temp < -20 THEN SEVERE
       ELSE IF temp < -15 THEN MODERATE
       ELSE MINOR

-----------------------------------------------------------------------------
(* Alert names.  KeywordsIn(name) is the set of the keywords tested by      *)
(* check_for_events that occur as substrings of name.lower().              *)

KeywordsIn(name) ==
    CASE name = "Severe Thunderstorm Warning" ->
             {"severe", "thunderstorm", "storm", "warning"}
      [] name = "Tornado Warning"         -> {"tornado", "warning"}
      [] name = "Tornado Watch"           -> {"tornado"}
      [] name = "Hurricane Warning"       -> {"hurricane", "warning"}
      [] name = "Flash Flood Warning"     -> {"flood", "warning"}
      [] name = "Heat Advisory"           -> {"heat"}
      [] name = "Excessive Heat Warning"  -> {"heat", "warning"}
      [] name = "Freeze Warning"          -> {"freeze", "warning"}
      [] name = "Extreme Cold Warning"    -> {"cold", "warning"}
      [] name = "Winter Weather Advisory" -> {"winter"}
      [] name = "Winter Storm Warning"    -> {"winter", "storm", "warning"}
      [] name = "Blizzard Warning"        -> {"blizzard", "warning"}
      [] name = "Heavy Snow Warning"      -> {"snow", "warning"}
      [] name = "High Wind Warning"       -> {"wind", "warning"}
      [] name = "Dust Storm Warning"      -> {"dust", "storm", "warning"}
      [] OTHER                            -> {}

NoType == "None"

\* lines 111-141: the event type and severity an alert name maps to
AlertMapping(name) ==
    LET kw == KeywordsIn(name)
    IN IF "thunderstorm" \in kw THEN [type |-> THUNDERSTORM, severity |-> SEVERE]
       ELSE IF "tornado" \in kw THEN [type |-> TORNADO_WARNING, severity |-> EXTREME]
       ELSE IF "hurricane" \in kw THEN [type |-> HURRICANE, severity |-> EXTREME]
       ELSE IF "flood" \in kw THEN [type |-> FLASH_FLOOD, severity |-> SEVERE]
       ELSE IF "heat" \in kw THEN [type |-> HEATWAVE, severity |-> SEVERE]
       ELSE IF "freeze" \in kw \/ "cold" \in kw
            THEN [type |-> COLD_SNAP, severity |-> SEVERE]
       ELSE IF "winter" \in kw
            THEN IF "storm" \in kw \/ "warning" \in kw
                 THEN [type |-> BLIZZARD, severity |-> SEVERE]
                 ELSE [type |-> COLD_SNAP, severity |-> MINOR]
       ELSE IF "blizzard" \in kw \/ ("snow" \in kw /\ "warning" \in kw)
            THEN [type |-> BLIZZARD, severity |-> SEVERE]
       ELSE IF "wind" \in kw /\ "warning" \in kw
            THEN [type |-> WINDSTORM, severity |-> SEVERE]
       ELSE IF "dust" \in kw THEN [type |-> DUST_STORM, severity |-> SEVERE]
       ELSE [type |-> NoType, severity |-> SEVERE]

_has_active_event(events, event_type) ==
    \E i \in 1..Len(events) : events[i].event_type = event_type

\* lines 148-156: dispatch to the creation method of the detected type
CreateForType(detected_type, severity, t) ==
    CASE detected_type = THUNDERSTORM    -> _create_thunderstorm(severity, t)
      [] detected_type = TORNADO_WARNING -> _create_tornado_warning(severity, t)
      [] detected_type = HURRICANE       -> _create_hurricane(severity, t)
      [] detected_type = FLASH_FLOOD     -> _create_flash_flood(severity, t)
      [] detected_type = HEATWAVE        -> _create_heatwave(severity, t)
      [] detected_type = COLD_SNAP       -> _create_cold_snap(severity, t)
      [] detected_type = BLIZZARD        -> _create_blizzard(severity, t)
      [] detected_type = WINDSTORM       -> _create_windstorm(severity, t)
      [] detected_type = DUST_STORM      -> _create_dust_storm(severity, t)

Max(a, b) == IF a >= b THEN a ELSE b

\* mutant of AlertOverride: the duration of the synthesized event is kept
AlertOverride_keep_duration(new_event, alert) ==
    [new_event EXCEPT !.description = AlertDescription(alert.event),
                      !.warning_issued = TRUE]

\* lines 158-163: description, warning flag and minimum duration of an
\* alert-driven event
AlertOverride(new_event, alert) ==
    [new_event EXCEPT !.description = AlertDescription(alert.event),
                      !.warning_issued = TRUE,
                      !.duration = Max(new_event.duration, 3600)]

\* lines 105-165: the events the alert pass appends to new_events; the
\* activity test reads self.active_events, which the pass does not change
RECURSIVE AlertPass(_, _, _)
AlertPass(alerts, events, t) ==
    IF alerts = <<>> THEN <<>>
    ELSE LET alert == Head(alerts)
             m == AlertMapping(alert.event)
         IN (IF m.type # NoType /\ ~_has_active_event(events, m.type)
             THEN <<AlertOverride(CreateForType(m.type, m.severity, t), alert)>>
             ELSE <<>>)
            \o AlertPass(Tail(alerts), events, t)

-----------------------------------------------------------------------------
(* The numeric triggers of the threshold pass (lines 171-286).  state is    *)
(* the game state, m the frequency multiplier in tenths, t = current_time. *)

ThunderstormTrigger(state, m) ==
    state.weather_code >= 95 \/ Above(GetAttr(state, "cape", 0), 1500, m)

HeatCondition(state, m) == Above(state.temp_c, 35, m)

HeatwaveTrigger(state, m, t, hst) ==
    HeatCondition(state, m) /\ hst # 0 /\ Above(t - hst, 7200, m)

BlizzardTrigger(state, m) ==
    /\ state.weather_code \in {73, 75, 77, 85, 86}
    /\ Above(state.wind_speed, 15, m)

WindstormTrigger(state, m) == Above(state.wind_speed, 25, m)

\* hours_since_rain = (current_time - last_rain_time) / 3600
DroughtTrigger(state, m, t, lrt) ==
    Above(t - lrt, 24 * 3600, m) /\ state.rain_vol = 0

DroughtSeverity(m, t, lrt) ==
    IF Above(t - lrt, 72 * 3600, m) THEN SEVERE ELSE MODERATE

DustStormTrigger(state, m) ==
    /\ Below(GetAttr(state, "visibility", 10000), 2000, m)
    /\ Above(state.wind_speed, 15, m)
    /\ state.rain_vol = 0

FogTrigger(state, m) ==
    /\ Below(GetAttr(state, "visibility", 10000), 1000, m)
    /\ Above(state.humidity, 90, m)

\* "extreme_cape > 5000" compares a boolean with 5000 and is never true
TornadoTrigger(state, m) ==
    /\ Above(GetAttr(state, "cape", 0), 3000, m)
    /\ state.weather_code >= 95
    /\ m > 12

HurricaneTrigger(state, m) ==
    Above(state.wind_speed, 33, m) /\ Above(state.rain_vol, 50, m)

ColdCondition(state, m) == Below(state.temp_c, -10, m)

ColdSnapTrigger(state, m, t, cst) ==
    ColdCondition(state, m) /\ cst # 0 /\ Above(t - cst, 3600, m)

FlashFloodTrigger(state, m) == Above(state.rain_vol, 100, m)

\* rnd is random.random() in 1/10000; chance = 0.001 * frequency_multiplier
AuroraTrigger(state, m, rnd) ==
    /\ Above(Abs(state.lat), 60 * 10000, m)
    /\ ~state.is_day
    /\ rnd < m

\* The dwell timers after the heatwave and cold-snap blocks
DwellTimer(blocked, condition, fires, timer, t) ==
    IF blocked THEN timer
    ELSE IF condition
         THEN (IF timer = 0 THEN t ELSE IF fires THEN 0 ELSE timer)
         ELSE 0

\* The block at which the missing attribute weather_code is first read
\* (0: nowhere, the pass runs to its end)
RaiseAt(state, events, m) ==
    IF HasAttr(state, "weather_code") THEN 0
    ELSE IF ~_has_active_event(events, THUNDERSTORM) THEN 1
    ELSE IF ~_has_active_event(events, BLIZZARD) THEN 3
    ELSE IF ~_has_active_event(events, TORNADO_WARNING)
            /\ Above(GetAttr(state, "cape", 0), 3000, m) THEN 8
    ELSE 0

Opt(cond, e) == IF cond THEN <<e>> ELSE <<>>

\* lines 171-286: the events the threshold pass appends, in block order
ThresholdPass(state, events, m, t, lrt, hst, cst, rnd) ==
       Opt(~_has_active_event(events, THUNDERSTORM) /\ ThunderstormTrigger(state, m),
           _create_thunderstorm(_determine_thunderstorm_severity(state), t))
    \o Opt(~_has_active_event(events, HEATWAVE) /\ HeatwaveTrigger(state, m, t, hst),
           _create_heatwave(_determine_heatwave_severity(state), t))
    \o Opt(~_has_active_event(events, BLIZZARD) /\ BlizzardTrigger(state, m),
           _create_blizzard(_determine_blizzard_severity(state), t))
    \o Opt(~_has_active_event(events, WINDSTORM) /\ WindstormTrigger(state, m),
           _create_windstorm(_determine_windstorm_severity(state), t))
    \o Opt(~_has_active_event(events, DROUGHT) /\ DroughtTrigger(state, m, t, lrt),
           _create_drought(DroughtSeverity(m, t, lrt), t))
    \o Opt(~_has_active_event(events, DUST_STORM) /\ DustStormTrigger(state, m),
           _create_dust_storm(MODERATE, t))
    \o Opt(~_has_active_event(events, FOG) /\ FogTrigger(state, m),
           _create_fog(MINOR, t))
    \o Opt(~_has_active_event(events, TORNADO_WARNING) /\ TornadoTrigger(state, m),
           _create_tornado_warning(EXTREME, t))
    \o Opt(~_has_active_event(events, HURRICANE) /\ HurricaneTrigger(state, m),
           _create_hurricane(EXTREME, t))
    \o Opt(~_has_active_event(events, COLD_SNAP) /\ ColdSnapTrigger(state, m, t, cst),
           _create_cold_snap(_determine_cold_snap_severity(state), t))
    \o Opt(~_has_active_event(events, FLASH_FLOOD) /\ FlashFloodTrigger(state, m),
           _create_flash_flood(SEVERE, t))
    \o Opt(~_has_active_event(events, AURORA) /\ AuroraTrigger(state, m, rnd),
           _create_aurora(MINOR, t))

\* check_for_events: the list it returns and the fields it leaves, or the
\* exception it ends with
check_for_events(state, events, m, t, lrt0, hst, cst, rnd) ==
    LET lrt == IF state.rain_vol > 0 THEN t ELSE lrt0
        at  == RaiseAt(state, events, m)
        hst1 == IF at = 1 THEN hst
                ELSE DwellTimer(_has_active_event(events, HEATWAVE),
                                HeatCondition(state, m),
                                HeatwaveTrigger(state, m, t, hst), hst, t)
        cst1 == IF at # 0 THEN cst
                ELSE DwellTimer(_has_active_event(events, COLD_SNAP),
                                ColdCondition(state, m),
                                ColdSnapTrigger(state, m, t, cst), cst, t)
    IN [raised |-> IF at = 0 THEN "" ELSE "AttributeError",
        new_events |-> IF at = 0
                       THEN AlertPass(state.alerts, events, t)
                            \o ThresholdPass(state, events, m, t, lrt, hst, cst, rnd)
                       ELSE <<>>,
        last_rain_time |-> lrt,
        heatwave_start_time |-> hst1,
        cold_start_time |-> cst1]

-----------------------------------------------------------------------------
(* update: expiry, history, detection *)

\* list.remove: drops the first element equal to e
RECURSIVE ListRemove(_, _)
ListRemove(list, e) ==
    IF list = <<>> THEN <<>>
    ELSE IF Head(list) = e THEN Tail(list)
    ELSE <<Head(list)>> \o ListRemove(Tail(list), e)

RECURSIVE RemoveEach(_, _)
RemoveEach(list, expired) ==
    IF expired = <<>> THEN list
    ELSE RemoveEach(ListRemove(list, Head(expired)), Tail(expired))

\* lines 293-297: the events of the list that are no longer active
Expired(events, t) == SelectSeq(events, LAMBDA e : ~is_active(e, t))

\* mutant of TrimHistory: the slice keeps the first max_history entries
TrimHistory_head(history) ==
    IF Len(history) > max_history
    THEN SubSeq(history, 1, max_history)
    ELSE history

\* lines 303-304: event_history[-max_history:]
TrimHistory(history) ==
    IF Len(history) > max_history
    THEN SubSeq(history, Len(history) - max_history + 1, Len(history))
    ELSE history

\* mutant of get_active_modifiers: the loop leaves out the last event
get_active_modifiers_short(events) ==
    IF events = <<>> THEN [wind |-> <<1, 1>>, solar |-> <<1, 1>>, hydro |-> <<1, 1>>]
    ELSE LET F[i \in 0..Len(events)] ==
                 IF i = 0 THEN <<1, 1, 1, 1>>
                 ELSE <<F[i-1][1] * events[i].wind_modifier,
                        F[i-1][2] * events[i].solar_modifier,
                        F[i-1][3] * events[i].hydro_modifier,
                        F[i-1][4] * 10>>
             r == F[Len(events) - 1]
         IN [wind |-> <<r[1], r[4]>>, solar |-> <<r[2], r[4]>>,
             hydro |-> <<r[3], r[4]>>]

\* get_active_modifiers: each channel as <<numerator, denominator>>, the
\* modifiers being tenths
get_active_modifiers(events) ==
    IF events = <<>> THEN [wind |-> <<1, 1>>, solar |-> <<1, 1>>, hydro |-> <<1, 1>>]
    ELSE LET F[i \in 0..Len(events)] ==
                 IF i = 0 THEN <<1, 1, 1, 1>>
                 ELSE <<F[i-1][1] * events[i].wind_modifier,
                        F[i-1][2] * events[i].solar_modifier,
                        F[i-1][3] * events[i].hydro_modifier,
                        F[i-1][4] * 10>>
             r == F[Len(events)]
         IN [wind |-> <<r[1], r[4]>>, solar |-> <<r[2], r[4]>>,
             hydro |-> <<r[3], r[4]>>]

-----------------------------------------------------------------------------
(* Game state *)

InitialWeatherData ==
    [temp |-> 20, wind_speed |-> 5, wind_dir |-> 0, weather_code |-> 0,
     is_day |-> TRUE, rain |-> 0, humidity |-> 50, cloud_cover |-> 0,
     shortwave_radiation |-> 0]

\* GameState.__init__: the attributes the event engine reads; weather_code
\* is not among the attributes the constructor sets
GameStateInit ==
    [lat |-> 407128, weather_data |-> InitialWeatherData, alerts |-> <<>>,
     wind_speed |-> 0, temp_c |-> 0, humidity |-> 0, is_day |-> TRUE,
     rain_vol |-> 0, visibility |-> 0, cape |-> 0]

\* GameState.update_weather(data) for a non-empty data
update_weather(state, data) ==
    [a \in DOMAIN state \cup {"weather_code"} |->
        CASE a = "weather_data" -> data
          [] a = "temp_c"       -> DictGet(data, "temp", 0)
          [] a = "wind_speed"   -> DictGet(data, "wind_speed", 0)
          [] a = "weather_code" -> DictGet(data, "weather_code", 0)
          [] a = "is_day"       -> DictGet(data, "is_day", TRUE)
          [] a = "visibility"   -> DictGet(data, "visibility", 0)
          [] a = "cape"         -> DictGet(data, "cape", 0)
          [] a = "humidity"     -> DictGet(data, "humidity", 0)
          [] a = "rain_vol"     -> DictGet(data, "rain", 0)
          [] OTHER              -> state[a]]

\* a provider snapshot with unremarkable weather
Calm ==
    [temp |-> 20, wind_speed |-> 5, weather_code |-> 0, is_day |-> TRUE,
     rain |-> 0, humidity |-> 50, visibility |-> 10000, cape |-> 0]

Snapshots ==
    { Calm,
      [Calm EXCEPT !.weather_code = 95],
      [Calm EXCEPT !.temp = 40] }

Alert(name) == [event |-> name]

AlertLists ==
    { <<>>,
      <<Alert("Severe Thunderstorm Warning")>>,
      <<Alert("Heat Advisory"), Alert("Excessive Heat Warning")>>,
      <<Alert("Hurricane Warning"), Alert("Tornado Warning")>> }

RandomDraws == {5, 5000}

-----------------------------------------------------------------------------
(* Provider data.  A Python value is a number (kept in tenths where the    *)
(* unit matters), a string or None; a dict is a function from its keys; an *)
(* Optional[dict] is Some(d) or Nothing.                                   *)

Num(n) == <<"num", n>>
Str(s) == <<"str", s>>
None == <<"none">>

Some(d) == [some |-> TRUE, value |-> d]
Nothing == [some |-> FALSE]

EmptyDict == [key \in {} |-> None]

\* a variant of bool(value) that holds of every value
Truthy_always(value) == TRUE

\* bool(value)
Truthy(value) ==
    CASE value[1] = "num" -> value[2] # 0
      [] value[1] = "str" -> value[2] # ""
      [] OTHER -> FALSE

\* bool(result) of an Optional[dict]: None and {} are false
TruthyDict(opt) == opt.some /\ DOMAIN opt.value # {}

\* d.update(e)
DictUpdate(d, e) ==
    [key \in DOMAIN d \cup DOMAIN e |-> IF key \in DOMAIN e THEN e[key] ELSE d[key]]

-----------------------------------------------------------------------------
(* WeatherService._smart_merge (network/weather_service.py) *)

prefer_nonzero_keys ==
    { "wind_speed", "wind_speed_10m", "wind_speed_80m", "wind_speed_120m",
      "wind_dir", "wind_dir_10m", "wind_gusts",
      "shortwave_radiation", "direct_radiation", "diffuse_radiation",
      "direct_normal_irradiance", "global_tilted_irradiance", "terrestrial_radiation",
      "uv_index", "uv_index_clear_sky",
      "cape", "cin", "et0", "evapotranspiration",
      "soil_moisture", "soil_temp",
      "visibility", "snow_depth",
      "us_aqi", "pm2_5", "pm10", "ozone",
      "sunrise", "sunset", "daylight_duration",
      "precip_probability", "precipitation", "rain", "snowfall", "showers",
      "daily_precip_sum", "daily_rain_sum", "daily_snow_sum" }

\* base_val == 0 or base_val == 0.0 or base_val == ""
IsZeroOrEmpty(base_val) == base_val = Num(0) \/ base_val = Str("")

\* a variant that only fills the zero or empty fields of the base
_smart_merge_fill_only(base, supplemental) ==
    [key \in DOMAIN base \cup DOMAIN supplemental |->
        IF key \notin DOMAIN supplemental THEN base[key]
        ELSE IF key \notin DOMAIN base THEN supplemental[key]
        ELSE IF key \in prefer_nonzero_keys
             THEN IF IsZeroOrEmpty(base[key]) /\ Truthy(supplemental[key])
                  THEN supplemental[key]
                  ELSE base[key]
             ELSE supplemental[key]]

_smart_merge(base, supplemental) ==
    [key \in DOMAIN base \cup DOMAIN supplemental |->
        IF key \notin DOMAIN supplemental THEN base[key]
        ELSE LET value == supplemental[key]
             IN IF key \in DOMAIN base
                THEN IF key \in prefer_nonzero_keys
                     THEN IF IsZeroOrEmpty(base[key]) /\ Truthy(value)
                          THEN value
                          ELSE IF Truthy(value) /\ value # Num(0)
                               THEN value
                               ELSE base[key]
                     ELSE value
                ELSE value]

-----------------------------------------------------------------------------
(* NWSClient (network/nws_client.py).  Coordinates are in 1/10000 degree.  *)
(* An HTTP exchange is a record: raises (the request ended in an           *)
(* exception), status, and the fields of the body the client reads.        *)

\* f"{x:.2f}" of a coordinate: the sign and the hundredths of the magnitude
\* (the inputs hold no coordinate halfway between two hundredths)
Format2(x) == <<IF x < 0 THEN "-" ELSE "", (Abs(x) + 50) \div 100>>

\* f"{x:.1f}"
Format1(x) == <<IF x < 0 THEN "-" ELSE "", (Abs(x) + 500) \div 1000>>

\* the cache key of get_gridpoint
GridpointKey(lat, lon) == <<Format2(lat), Format2(lon)>>

\* a variant of get_gridpoint that never reads its cache
get_gridpoint_always_fetch(cache, lat, lon, response) ==
    LET cache_key == GridpointKey(lat, lon)
    IN IF ~response.raises /\ response.status = 200
       THEN LET result == [gridId |-> response.gridId,
                           observationStations |-> response.observationStations]
            IN [result |-> Some(result),
                cache |-> [k \in DOMAIN cache \cup {cache_key} |->
                              IF k = cache_key THEN result ELSE cache[k]],
                requests |-> 1]
       ELSE [result |-> Nothing, cache |-> cache, requests |-> 1]

\* get_gridpoint: the result, the cache afterwards, the requests issued
get_gridpoint(cache, lat, lon, response) ==
    LET cache_key == GridpointKey(lat, lon)
    IN IF cache_key \in DOMAIN cache
       THEN [result |-> Some(cache[cache_key]), cache |-> cache, requests |-> 0]
       ELSE IF ~response.raises /\ response.status = 200
            THEN LET result == [gridId |-> response.gridId,
                                observationStations |-> response.observationStations]
                 IN [result |-> Some(result),
                     cache |-> [k \in DOMAIN cache \cup {cache_key} |->
                                   IF k = cache_key THEN result ELSE cache[k]],
                     requests |-> 1]
            ELSE [result |-> Nothing, cache |-> cache, requests |-> 1]

\* get_stations: the identifiers of the first five features, nearest first
get_stations(response) ==
    IF ~response.raises /\ response.status = 200
    THEN SelectSeq(SubSeq(response.features, 1, Min(5, Len(response.features))),
                   LAMBDA station_id : station_id # "")
    ELSE <<>>

\* _parse_observation, on the properties of the payload the model keeps:
\* temperature and windSpeed (km/h) are None or numbers
_parse_observation(props) ==
    IF props.temperature = None
    THEN Nothing
    ELSE LET wind_kmh == IF props.windSpeed = None THEN Num(0) ELSE props.windSpeed
             wind_ms  == IF Truthy(wind_kmh) THEN Num((wind_kmh[2] * 10) \div 36)
                         ELSE Num(0)
         IN Some([ temp          |-> props.temperature,
                   wind_speed    |-> wind_ms,
                   cape          |-> Num(0),
                   dust          |-> Num(0),
                   sunrise       |-> Str(""),
                   soil_moisture |-> Num(0),
                   _nws_station  |-> Str(props.stationId) ])

get_current_observation(response) ==
    IF ~response.raises /\ response.status = 200
    THEN _parse_observation(response.props)
    ELSE Nothing

\* a variant of step 3 that asks every station and gives the first
\* observation it got
RECURSIVE TryStations_all(_, _, _)
TryStations_all(station_ids, observations, queried) ==
    IF station_ids = <<>>
    THEN [result |-> Nothing, queried |-> queried]
    ELSE LET station_id  == Head(station_ids)
             observation == get_current_observation(observations[station_id])
             rest == TryStations_all(Tail(station_ids), observations,
                                     Append(queried, station_id))
         IN IF observation.some /\ observation.value.temp # None
            THEN [result |-> observation, queried |-> rest.queried]
            ELSE rest

\* step 3 of NWSClient.get_weather: the stations in order, until one gives
\* an observation; queried is the list of the stations asked
RECURSIVE TryStations(_, _, _)
TryStations(station_ids, observations, queried) ==
    IF station_ids = <<>>
    THEN [result |-> Nothing, queried |-> queried]
    ELSE LET station_id  == Head(station_ids)
             observation == get_current_observation(observations[station_id])
         IN IF observation.some /\ observation.value.temp # None
            THEN [result |-> observation, queried |-> Append(queried, station_id)]
            ELSE TryStations(Tail(station_ids), observations,
                             Append(queried, station_id))

\* NWSClient.get_weather
nws_get_weather(cache, lat, lon, gridpoint_response, stations_response, observations) ==
    LET gp == get_gridpoint(cache, lat, lon, gridpoint_response)
        failure == [result |-> Nothing, cache |-> gp.cache, gridpoint |-> gp.result,
                    gridpoint_requests |-> gp.requests, station_ids |-> <<>>,
                    queried |-> <<>>]
    IN IF ~gp.result.some THEN failure
       ELSE IF gp.result.value.observationStations = "" THEN failure
       ELSE LET station_ids == get_stations(stations_response)
                tried == TryStations(station_ids, observations, <<>>)
            IN [failure EXCEPT !.station_ids = station_ids,
                               !.result = tried.result,
                               !.queried = tried.queried]

-----------------------------------------------------------------------------
(* OpenMeteoClient.get_weather (network/open_meteo.py): the parsed data of *)
(* the weather response, None when the request fails or raises             *)

open_meteo_get_weather(response) ==
    IF ~response.raises /\ response.status = 200 /\ DOMAIN response.data # {}
    THEN Some(response.data)
    ELSE Nothing

-----------------------------------------------------------------------------
(* GFSClient (network/gfs_client.py).  The clock is in whole seconds since *)
(* the epoch, UTC; a date is the number of its day, a cycle its hour.      *)

CYCLE_DELAY_HOURS == 4

\* _get_latest_cycle with the clock reading t: (date, cycle, forecast hour)
\* the variant without the publication delay comes first
_get_latest_cycle_no_delay(t) ==
    LET cycle_hour == (((t % 86400) \div 3600) \div 6) * 6
        cycle_time == t - (t % 86400) + cycle_hour * 3600
        forecast_hour == (t - cycle_time) \div 3600
    IN <<cycle_time \div 86400, cycle_hour, Max(0, Min(120, forecast_hour))>>

_get_latest_cycle(t) ==
    LET available_time == t - CYCLE_DELAY_HOURS * 3600
        cycle_hour == (((available_time % 86400) \div 3600) \div 6) * 6
        cycle_time == available_time - (available_time % 86400) + cycle_hour * 3600
        forecast_hour == (t - cycle_time) \div 3600
    IN <<cycle_time \div 86400, cycle_hour, Max(0, Min(120, forecast_hour))>>

_get_cache_key(lat, lon, date_str, cycle_str) ==
    <<date_str, cycle_str, Format1(lat), Format1(lon)>>

\* datetime.isoformat() and datetime.fromisoformat(): a timestamp is written
\* as (day, second of the day); any other text makes fromisoformat raise
isoformat(t) == <<t \div 86400, t % 86400>>

IsIsoFormat(text) == Len(text) = 2

fromisoformat(text) == text[1] * 86400 + text[2]

\* a variant of _is_cache_valid that accepts the age of exactly 6 hours
_is_cache_valid_le(metadata, cache_key, t) ==
    IF cache_key \notin DOMAIN metadata THEN [raised |-> FALSE, valid |-> FALSE]
    ELSE LET cached_time == metadata[cache_key].timestamp
         IN IF cached_time = <<>> THEN [raised |-> FALSE, valid |-> FALSE]
            ELSE IF ~IsIsoFormat(cached_time) THEN [raised |-> TRUE, valid |-> FALSE]
            ELSE [raised |-> FALSE,
                  valid |-> t - fromisoformat(cached_time) <= 6 * 3600]

\* _is_cache_valid: raised when the stored timestamp cannot be parsed
_is_cache_valid(metadata, cache_key, t) ==
    IF cache_key \notin DOMAIN metadata THEN [raised |-> FALSE, valid |-> FALSE]
    ELSE LET cached_time == metadata[cache_key].timestamp
         IN IF cached_time = <<>> THEN [raised |-> FALSE, valid |-> FALSE]
            ELSE IF ~IsIsoFormat(cached_time) THEN [raised |-> TRUE, valid |-> FALSE]
            ELSE [raised |-> FALSE,
                  valid |-> t - fromisoformat(cached_time) < 6 * 3600]

\* _get_cached_data: the file of the key, None when there is none
_get_cached_data(files, cache_key) ==
    IF cache_key \in DOMAIN files THEN Some(files[cache_key]) ELSE Nothing

\* the names of _to_game_format
mapping ==
    [ cape |-> "gfs_cape", cin |-> "gfs_cin", soilw |-> "gfs_soil_moisture",
      tsoil |-> "gfs_soil_temp", vis |-> "gfs_visibility",
      snod |-> "gfs_snow_depth", gust |-> "gfs_gust", prate |-> "gfs_precip_rate" ]

\* _to_game_format (soil temperature in hundredths of a degree)
_to_game_format(raw_data) ==
    LET present == DOMAIN mapping \cap DOMAIN raw_data
        Source(game_key) == CHOOSE gfs_key \in present : mapping[gfs_key] = game_key
        Convert(gfs_key, value) ==
            IF gfs_key = "tsoil" THEN Num(value[2] - 27315)
            ELSE IF gfs_key = "prate" THEN Num(value[2] * 3600)
            ELSE value
    IN [game_key \in {mapping[gfs_key] : gfs_key \in present} |->
            Convert(Source(game_key), raw_data[Source(game_key)])]

\* fetch_grib followed by parse_grib: a download is fetched or not, and
\* holds the variables raw (none when it cannot be parsed)
parse_grib(grib) == IF DOMAIN grib.raw # {} THEN Some(grib.raw) ELSE Nothing

\* a variant of get_supplemental_data whose retry keeps the date
get_supplemental_data_no_rollover(metadata, files, lat, lon, t, first, second) ==
    LET cycle == _get_latest_cycle(t)
        date_str == cycle[1]
        cycle_str == cycle[2]
        forecast_hour == cycle[3]
        cache_key == _get_cache_key(lat, lon, date_str, cycle_str)
        check == _is_cache_valid(metadata, cache_key, t)
        cached == _get_cached_data(files, cache_key)
        prev_cycle_hour == (cycle_str - 6) % 24
        prev_date == date_str
        request1 == <<date_str, cycle_str, forecast_hour>>
        request2 == <<prev_date, prev_cycle_hour, forecast_hour + 6>>
        grib == IF first.fetched THEN first ELSE second
        requests == IF first.fetched THEN <<request1>> ELSE <<request1, request2>>
        raw_data == parse_grib(grib)
        out == [raised |-> FALSE, result |-> Nothing, metadata |-> metadata,
                files |-> files, requests |-> <<>>]
    IN IF check.raised THEN [out EXCEPT !.raised = TRUE]
       ELSE IF check.valid /\ TruthyDict(cached) THEN [out EXCEPT !.result = cached]
       ELSE IF ~grib.fetched THEN [out EXCEPT !.requests = requests]
       ELSE IF ~raw_data.some THEN [out EXCEPT !.requests = requests]
       ELSE LET game_data == _to_game_format(raw_data.value)
            IN [ raised   |-> FALSE,
                 result   |-> Some(game_data),
                 metadata |-> [k \in DOMAIN metadata \cup {cache_key} |->
                                 IF k = cache_key
                                 THEN [timestamp |-> isoformat(t)]
                                 ELSE metadata[k]],
                 files    |-> [k \in DOMAIN files \cup {cache_key} |->
                                 IF k = cache_key THEN game_data ELSE files[k]],
                 requests |-> requests ]

\* GFSClient.get_supplemental_data at the clock reading t; first and second
\* are the downloads of the current and of the previous cycle
get_supplemental_data(metadata, files, lat, lon, t, first, second) ==
    LET cycle == _get_latest_cycle(t)
        date_str == cycle[1]
        cycle_str == cycle[2]
        forecast_hour == cycle[3]
        cache_key == _get_cache_key(lat, lon, date_str, cycle_str)
        check == _is_cache_valid(metadata, cache_key, t)
        cached == _get_cached_data(files, cache_key)
        prev_cycle_hour == (cycle_str - 6) % 24
        prev_date == IF prev_cycle_hour > cycle_str THEN date_str - 1 ELSE date_str
        request1 == <<date_str, cycle_str, forecast_hour>>
        request2 == <<prev_date, prev_cycle_hour, forecast_hour + 6>>
        grib == IF first.fetched THEN first ELSE second
        requests == IF first.fetched THEN <<request1>> ELSE <<request1, request2>>
        raw_data == parse_grib(grib)
        out == [raised |-> FALSE, result |-> Nothing, metadata |-> metadata,
                files |-> files, requests |-> <<>>]
    IN IF check.raised THEN [out EXCEPT !.raised = TRUE]
       ELSE IF check.valid /\ TruthyDict(cached) THEN [out EXCEPT !.result = cached]
       ELSE IF ~grib.fetched THEN [out EXCEPT !.requests = requests]
       ELSE IF ~raw_data.some THEN [out EXCEPT !.requests = requests]
       ELSE LET game_data == _to_game_format(raw_data.value)
            IN [ raised   |-> FALSE,
                 result   |-> Some(game_data),
                 metadata |-> [k \in DOMAIN metadata \cup {cache_key} |->
                                 IF k = cache_key
                                 THEN [timestamp |-> isoformat(t)]
                                 ELSE metadata[k]],
                 files    |-> [k \in DOMAIN files \cup {cache_key} |->
                                 IF k = cache_key THEN game_data ELSE files[k]],
                 requests |-> requests ]

-----------------------------------------------------------------------------
(* WeatherService (network/weather_service.py) *)

US_LAT_MIN == 240000
US_LAT_MAX == 500000
US_LON_MIN == -1250000
US_LON_MAX == -660000
ALASKA_LAT_MIN == 510000
ALASKA_LAT_MAX == 720000
ALASKA_LON_MIN == -1800000
ALASKA_LON_MAX == -1290000
HAWAII_LAT_MIN == 180000
HAWAII_LAT_MAX == 230000
HAWAII_LON_MIN == -1610000
HAWAII_LON_MAX == -1540000
PR_LAT_MIN == 175000
PR_LAT_MAX == 186000
PR_LON_MIN == -680000
PR_LON_MAX == -650000

\* a variant of _is_us_location whose box edges are exclusive
_is_us_location_exclusive(lat, lon) ==
    \/ US_LAT_MIN < lat /\ lat < US_LAT_MAX /\ US_LON_MIN < lon /\ lon < US_LON_MAX
    \/ /\ ALASKA_LAT_MIN < lat /\ lat < ALASKA_LAT_MAX
       /\ ALASKA_LON_MIN < lon /\ lon < ALASKA_LON_MAX
    \/ /\ HAWAII_LAT_MIN < lat /\ lat < HAWAII_LAT_MAX
       /\ HAWAII_LON_MIN < lon /\ lon < HAWAII_LON_MAX
    \/ PR_LAT_MIN < lat /\ lat < PR_LAT_MAX /\ PR_LON_MIN < lon /\ lon < PR_LON_MAX

_is_us_location(lat, lon) ==
    \/ US_LAT_MIN <= lat /\ lat <= US_LAT_MAX /\ US_LON_MIN <= lon /\ lon <= US_LON_MAX
    \/ /\ ALASKA_LAT_MIN <= lat /\ lat <= ALASKA_LAT_MAX
       /\ ALASKA_LON_MIN <= lon /\ lon <= ALASKA_LON_MAX
    \/ /\ HAWAII_LAT_MIN <= lat /\ lat <= HAWAII_LAT_MAX
       /\ HAWAII_LON_MIN <= lon /\ lon <= HAWAII_LON_MAX
    \/ PR_LAT_MIN <= lat /\ lat <= PR_LAT_MAX /\ PR_LON_MIN <= lon /\ lon <= PR_LON_MAX

\* the part of the supplemental dict taken from Open-Meteo (lines 163-221),
\* on the keys the model keeps
FromOpenMeteo(om_data) ==
    [ wind_speed |-> DictGet(om_data, "wind_speed", Num(0)),
      dust       |-> DictGet(om_data, "dust", Num(0)),
      sunrise    |-> DictGet(om_data, "sunrise", Str("")) ]

\* a variant of the grid part that leaves the storm index and the soil
\* moisture to the dict so far
FromGrid_keep_result(gfs_data, result) ==
    [ cape           |-> DictGet(result, "cape", Num(0)),
      cin            |-> DictGet(gfs_data, "gfs_cin", Num(0)),
      soil_moisture  |-> DictGet(result, "soil_moisture", Num(0)),
      gfs_visibility |-> DictGet(gfs_data, "gfs_visibility", Num(0)) ]

\* the part taken from the grid (lines 230-238), result the dict so far
FromGrid(gfs_data, result) ==
    [ cape           |-> DictGet(gfs_data, "gfs_cape", DictGet(result, "cape", Num(0))),
      cin            |-> DictGet(gfs_data, "gfs_cin", Num(0)),
      soil_moisture  |-> DictGet(gfs_data, "gfs_soil_moisture",
                                 DictGet(result, "soil_moisture", Num(0))),
      gfs_visibility |-> DictGet(gfs_data, "gfs_visibility", Num(0)) ]

\* a variant of _get_supplemental_data that gives nothing when the grid
\* call raised
_get_supplemental_data_abort(om_data, gfs) ==
    IF gfs.raised THEN Nothing
    ELSE LET after_om == IF TruthyDict(om_data)
                         THEN DictUpdate(EmptyDict, FromOpenMeteo(om_data.value))
                         ELSE EmptyDict
             result == IF TruthyDict(gfs.result)
                       THEN DictUpdate(after_om, FromGrid(gfs.result.value, after_om))
                       ELSE after_om
         IN IF DOMAIN result # {} THEN Some(result) ELSE Nothing

\* _get_supplemental_data: om_data the result of OpenMeteoClient.get_weather,
\* gfs the outcome of GFSClient.get_supplemental_data; an exception of either
\* call is caught and leaves the dict as it was
_get_supplemental_data(om_data, gfs) ==
    LET after_om == IF TruthyDict(om_data)
                    THEN DictUpdate(EmptyDict, FromOpenMeteo(om_data.value))
                    ELSE EmptyDict
        result == IF ~gfs.raised /\ TruthyDict(gfs.result)
                  THEN DictUpdate(after_om, FromGrid(gfs.result.value, after_om))
                  ELSE after_om
    IN IF DOMAIN result # {} THEN Some(result) ELSE Nothing

\* a variant of get_weather that gives up when the domestic provider fails
get_weather_no_fallback(cache, metadata, files, lat, lon, t, gridpoint_response, stations_response, observations, om_response, first, second) ==
    LET domestic == _is_us_location(lat, lon)
        nws == nws_get_weather(cache, lat, lon, gridpoint_response,
                               stations_response, observations)
        om  == open_meteo_get_weather(om_response)
    IN [ result       |-> IF domestic THEN nws.result ELSE om,
         _last_source |-> IF domestic THEN "NWS" ELSE "Open-Meteo",
         cache        |-> IF domestic THEN nws.cache ELSE cache,
         metadata     |-> metadata,
         files        |-> files,
         domestic     |-> domestic,
         nws          |-> IF domestic THEN nws.result ELSE Nothing,
         queried      |-> IF domestic THEN nws.queried ELSE <<>>,
         om           |-> om,
         gfs_raised   |-> FALSE,
         gfs          |-> Nothing,
         supplemental |-> Nothing ]

\* WeatherService.get_weather: the value returned, the source, the state of
\* the clients afterwards and what each client did
get_weather(cache, metadata, files, lat, lon, t, gridpoint_response, stations_response, observations, om_response, first, second) ==
    LET domestic == _is_us_location(lat, lon)
        nws == nws_get_weather(cache, lat, lon, gridpoint_response,
                               stations_response, observations)
        om  == open_meteo_get_weather(om_response)
        gfs == get_supplemental_data(metadata, files, lat, lon, t, first, second)
        supplemental == _get_supplemental_data(om, gfs)
    IN IF domestic /\ TruthyDict(nws.result)
       THEN [ result       |-> IF TruthyDict(supplemental)
                               THEN Some(_smart_merge(nws.result.value,
                                                      supplemental.value))
                               ELSE nws.result,
              _last_source |-> "NWS",
              cache        |-> nws.cache,
              metadata     |-> gfs.metadata,
              files        |-> gfs.files,
              domestic     |-> domestic,
              nws          |-> nws.result,
              queried      |-> nws.queried,
              om           |-> om,
              gfs_raised   |-> gfs.raised,
              gfs          |-> gfs.result,
              supplemental |-> supplemental ]
       ELSE [ result       |-> om,
              _last_source |-> "Open-Meteo",
              cache        |-> IF domestic THEN nws.cache ELSE cache,
              metadata     |-> metadata,
              files        |-> files,
              domestic     |-> domestic,
              nws          |-> Nothing,
              queried      |-> IF domestic THEN nws.queried ELSE <<>>,
              om           |-> om,
              gfs_raised   |-> FALSE,
              gfs          |-> Nothing,
              supplemental |-> Nothing ]

-----------------------------------------------------------------------------
(* The keys of the snapshots and the fields the game reads from them *)

\* the keys of the dict NWSClient._parse_observation returns (lines 210-316)
ParseObservationKeys ==
    { "temp", "wind_speed", "wind_dir", "weather_code", "is_day", "temp_2m",
      "apparent_temp", "dewpoint", "humidity", "precip_probability",
      "precipitation", "rain", "showers", "snowfall", "snow_depth", "pressure",
      "surface_pressure", "cloud_cover", "cloud_cover_low", "cloud_cover_mid",
      "cloud_cover_high", "visibility", "vapor_pressure_deficit",
      "wind_speed_10m", "wind_speed_80m", "wind_speed_120m", "wind_dir_10m",
      "wind_gusts", "shortwave_radiation", "direct_radiation",
      "diffuse_radiation", "direct_normal_irradiance",
      "global_tilted_irradiance", "terrestrial_radiation", "soil_temp_0cm",
      "soil_temp_6cm", "soil_temp_18cm", "soil_temp_54cm",
      "soil_moisture_0_1cm", "soil_moisture_1_3cm", "soil_moisture_3_9cm",
      "soil_moisture_9_27cm", "soil_moisture_27_81cm", "uv_index",
      "uv_index_clear_sky", "cape", "freezing_level", "et0",
      "evapotranspiration", "sunshine_duration", "us_aqi", "pm10", "pm2_5",
      "carbon_monoxide", "nitrogen_dioxide", "sulphur_dioxide", "ozone",
      "aerosol_optical_depth", "dust", "sunrise", "sunset", "daylight_duration",
      "daily_sunshine_duration", "daily_precip_sum", "daily_rain_sum",
      "daily_snow_sum", "daily_uv_max", "daily_wind_max",
      "daily_wind_gusts_max", "daily_et0_sum", "soil_moisture", "soil_temp",
      "_nws_timestamp", "_nws_station", "_nws_text" }

\* the keys of the dict OpenMeteoClient._parse_data returns (lines 130-224)
ParseDataKeys ==
    { "temp", "wind_speed", "wind_dir", "weather_code", "is_day", "temp_2m",
      "apparent_temp", "dewpoint", "humidity", "precip_probability",
      "precipitation", "rain", "showers", "snowfall", "snow_depth", "pressure",
      "surface_pressure", "cloud_cover", "cloud_cover_low", "cloud_cover_mid",
      "cloud_cover_high", "visibility", "vapor_pressure_deficit",
      "wind_speed_10m", "wind_speed_80m", "wind_speed_120m", "wind_dir_10m",
      "wind_gusts", "shortwave_radiation", "direct_radiation",
      "diffuse_radiation", "direct_normal_irradiance",
      "global_tilted_irradiance", "terrestrial_radiation", "soil_temp_0cm",
      "soil_temp_6cm", "soil_temp_18cm", "soil_temp_54cm",
      "soil_moisture_0_1cm", "soil_moisture_1_3cm", "soil_moisture_3_9cm",
      "soil_moisture_9_27cm", "soil_moisture_27_81cm", "uv_index",
      "uv_index_clear_sky", "cape", "freezing_level", "et0",
      "evapotranspiration", "sunshine_duration", "us_aqi", "pm10", "pm2_5",
      "carbon_monoxide", "nitrogen_dioxide", "sulphur_dioxide", "ozone",
      "aerosol_optical_depth", "dust", "sunrise", "sunset", "daylight_duration",
      "daily_sunshine_duration", "daily_precip_sum", "daily_rain_sum",
      "daily_snow_sum", "daily_uv_max", "daily_wind_max",
      "daily_wind_gusts_max", "daily_et0_sum", "soil_moisture", "soil_temp" }

\* the keys _get_supplemental_data takes from Open-Meteo (lines 163-221)
OpenMeteoSupplementKeys ==
    { "wind_speed", "wind_speed_10m", "wind_speed_80m", "wind_speed_120m",
      "wind_dir", "wind_dir_10m", "wind_gusts", "us_aqi", "pm10", "pm2_5",
      "carbon_monoxide", "nitrogen_dioxide", "sulphur_dioxide", "ozone",
      "aerosol_optical_depth", "dust", "uv_index", "uv_index_clear_sky",
      "shortwave_radiation", "direct_radiation", "diffuse_radiation",
      "direct_normal_irradiance", "global_tilted_irradiance",
      "terrestrial_radiation", "precip_probability", "precipitation", "rain",
      "snowfall", "snow_depth", "showers", "freezing_level", "et0",
      "evapotranspiration", "sunrise", "sunset", "daylight_duration",
      "daily_sunshine_duration", "daily_precip_sum", "daily_rain_sum",
      "daily_snow_sum", "daily_uv_max", "daily_wind_max",
      "daily_wind_gusts_max", "daily_et0_sum" }

\* the keys _get_supplemental_data writes from the grid data (lines 230-238)
GridSupplementKeys ==
    { "cape", "cin", "soil_moisture", "gfs_visibility", "gfs_gust",
      "gfs_snow_depth", "gfs_precip_rate" }

\* the keys GameState.update_weather reads (state.py:104-137); "clouds" is
\* read only when "cloud_cover" is missing
UpdateWeatherKeys ==
    { "temp", "wind_speed", "wind_dir", "weather_code", "is_day",
      "soil_moisture", "soil_temp", "sunrise", "sunset", "solar_radiation",
      "direct_radiation", "diffuse_radiation", "cloud_cover_low",
      "cloud_cover_mid", "cloud_cover_high", "visibility", "cape", "et0",
      "snow_depth", "uv_index", "aqi", "pm2_5", "ozone", "humidity",
      "cloud_cover", "rain" }

\* the keys of the snapshot WeatherService.get_weather returns: those of the
\* NWS observation with the keys _smart_merge adds from the supplemental dict
\* (weather_service.py:283-285), or those of Open-Meteo's parsed data
get_weather_keys(nws_some, om_some, gfs_some) ==
    IF nws_some
    THEN ParseObservationKeys
         \cup (IF om_some THEN OpenMeteoSupplementKeys ELSE {})
         \cup (IF gfs_some THEN GridSupplementKeys ELSE {})
    ELSE ParseDataKeys

\* the clients after construction, the cache directory being empty
NetInit ==
    /\ _gridpoint_cache = EmptyDict
    /\ _cache_metadata = EmptyDict
    /\ cache_files = EmptyDict
    /\ _last_source = "none"
    /\ last_call = [op |-> "none"]

-----------------------------------------------------------------------------
(* The game core (game/core.py, game/travel.py, game/resources.py,
   game/machines.py). Energy, water and biomass are counted in tenths of a
   unit; a message is the tuple of the parts its f-string joins. *)

\* the names create_machine knows (machines.py:133-142)
MachineNames ==
    { "Wind Turbine", "Rain Collector", "Solar Panel", "Heater", "Battery",
      "Water Tank", "Sprinkler", "Creature Stable" }

\* MachineType.cost_energy and cost_biomass as defined in machines.py:123-130
TypeCostEnergy(name) ==
    CASE name = "Wind Turbine"    -> 10 * 50
      [] name = "Rain Collector"  -> 10 * 20
      [] name = "Solar Panel"     -> 10 * 100
      [] name = "Heater"          -> 10 * 50
      [] name = "Battery"         -> 10 * 100
      [] name = "Water Tank"      -> 10 * 50
      [] name = "Sprinkler"       -> 10 * 10
      [] name = "Creature Stable" -> 10 * 75

TypeCostBiomass(name) ==
    CASE name = "Wind Turbine"    -> 10 * 10
      [] name = "Rain Collector"  -> 10 * 5
      [] name = "Solar Panel"     -> 10 * 20
      [] name = "Heater"          -> 0
      [] name = "Battery"         -> 10 * 10
      [] name = "Water Tank"      -> 10 * 20
      [] name = "Sprinkler"       -> 10 * 5
      [] name = "Creature Stable" -> 10 * 40

\* the energy cost build_machine checks: it overwrites the cost of three
\* types before the check (core.py:293-295)
CostEnergy(name) ==
    CASE name = "Wind Turbine"   -> 10 * 100
      [] name = "Solar Panel"    -> 10 * 150
      [] name = "Rain Collector" -> 10 * 50
      [] OTHER                   -> TypeCostEnergy(name)

\* the names of ALL_CROPS (farming.py:104-194), the keys of GameState.seeds
CropNames == {"Winter Wheat", "Corn", "Potato", "Rice", "Cactus", "Sunflower"}

\* a Machine or a Crop on the grid; id stands for the identity of the object
PlacedObject(id, kind, name, x, y) ==
    [id |-> id, kind |-> kind, name |-> name, x |-> x, y |-> y]

\* Game.__init__ with GameState.__init__ and ResourceManager.__init__: the
\* attributes the operations below use
GameInit ==
    [ energy |-> 10 * 100, biomass |-> 10 * 10,
      energy_capacity |-> 10 * 1000, water_capacity |-> 10 * 500,
      biomass_capacity |-> 10 * 100,
      machines |-> <<>>, crops |-> <<>>,
      seeds |-> [crop_name \in CropNames |-> 5],
      moving_object |-> Nothing,
      lon |-> -740060, location_name |-> "New York",
      _locations_visited |-> 1,
      next_id |-> 1 ]

\* ResourceManager.add_energy (lifetime totals left out)
add_energy(g, amount) ==
    [g EXCEPT !.energy = Min(g.energy + amount, g.energy_capacity)]

\* ResourceManager.consume_energy and consume_biomass: whether the amount
\* was there, and the resources afterwards
consume_energy(g, amount) ==
    IF g.energy >= amount
    THEN [ok |-> TRUE, game |-> [g EXCEPT !.energy = g.energy - amount]]
    ELSE [ok |-> FALSE, game |-> g]

consume_biomass(g, amount) ==
    IF g.biomass >= amount
    THEN [ok |-> TRUE, game |-> [g EXCEPT !.biomass = g.biomass - amount]]
    ELSE [ok |-> FALSE, game |-> g]

\* some object of the list stands at (x, y)
OccupiedBy(objects, x, y) ==
    \E i \in 1..Len(objects) : objects[i].x = x /\ objects[i].y = y

\* the first object of the list at (x, y)
FirstAt(objects, x, y) ==
    objects[CHOOSE i \in 1..Len(objects) :
                /\ objects[i].x = x /\ objects[i].y = y
                /\ \A j \in 1..(i - 1) : ~(objects[j].x = x /\ objects[j].y = y)]

InBounds(x, y) == 0 <= x /\ x < 10 /\ 0 <= y /\ y < 10

\* Machine.on_place of Battery and WaterTank (machines.py:91-103)
on_place(g, name) ==
    CASE name = "Battery"    -> [g EXCEPT !.energy_capacity = @ + 10 * 500]
      [] name = "Water Tank" -> [g EXCEPT !.water_capacity = @ + 10 * 250]
      [] OTHER               -> g

\* Game.build_machine(name, x, y): the game afterwards and the pair returned
build_machine(g, name, x, y) ==
    IF ~InBounds(x, y) THEN [game |-> g, result |-> <<FALSE, <<"Out of bounds">>>>]
    ELSE IF OccupiedBy(g.machines, x, y)
    THEN [game |-> g, result |-> <<FALSE, <<"Space occupied">>>>]
    ELSE IF name \notin MachineNames
    THEN [game |-> g, result |-> <<FALSE, <<"Invalid machine type">>>>]
    ELSE IF g.energy < CostEnergy(name)
    THEN [game |-> g,
          result |-> <<FALSE, <<"Not enough Energy (Need ",
                                CostEnergy(name) \div 10, ")">>>>]
    ELSE IF g.biomass < TypeCostBiomass(name)
    THEN [game |-> g, result |-> <<FALSE, <<"Not enough Biomass">>>>]
    ELSE LET paid == consume_biomass(consume_energy(g, CostEnergy(name)).game,
                                     TypeCostBiomass(name)).game
             machine == PlacedObject(g.next_id, "machine", name, x, y)
             placed == [paid EXCEPT !.machines = Append(@, machine),
                                    !.next_id = @ + 1]
         IN [game |-> on_place(placed, name), result |-> <<TRUE, <<"Built ", name>>>>]

\* Game.plant_crop(crop_name, x, y)
plant_crop(g, crop_name, x, y) ==
    IF ~InBounds(x, y) THEN [game |-> g, result |-> <<FALSE, <<"Out of bounds">>>>]
    ELSE IF OccupiedBy(g.machines, x, y)
    THEN [game |-> g, result |-> <<FALSE, <<"Space occupied by machine">>>>]
    ELSE IF OccupiedBy(g.crops, x, y)
    THEN [game |-> g, result |-> <<FALSE, <<"Space occupied by crop">>>>]
    ELSE IF crop_name \notin DOMAIN g.seeds \/ DictGet(g.seeds, crop_name, 0) <= 0
    THEN [game |-> g, result |-> <<FALSE, <<"No seeds available">>>>]
    ELSE IF crop_name \in CropNames
    THEN [game |-> [g EXCEPT !.crops = Append(@, PlacedObject(g.next_id, "crop",
                                                              crop_name, x, y)),
                             !.seeds[crop_name] = @ - 1,
                             !.next_id = @ + 1],
          result |-> <<TRUE, <<"Planted ", crop_name>>>>]
    ELSE [game |-> g, result |-> <<FALSE, <<"Invalid crop type">>>>]

\* Game.start_move(x, y): the first machine at (x, y), else the first crop
\* there, is taken off its list and becomes moving_object (obj, x, y)
start_move(g, x, y) ==
    IF OccupiedBy(g.machines, x, y)
    THEN LET m == FirstAt(g.machines, x, y)
         IN [game |-> [g EXCEPT !.moving_object = Some(<<m, m.x, m.y>>),
                                !.machines = ListRemove(@, m)],
             result |-> <<TRUE, <<"Moving ", m.name>>>>]
    ELSE IF OccupiedBy(g.crops, x, y)
    THEN LET c == FirstAt(g.crops, x, y)
         IN [game |-> [g EXCEPT !.moving_object = Some(<<c, c.x, c.y>>),
                                !.crops = ListRemove(@, c)],
             result |-> <<TRUE, <<"Moving ", c.name>>>>]
    ELSE [game |-> g, result |-> <<FALSE, <<"Nothing to move">>>>]

\* the object put back on the list of its kind (core.py:380-383, 397-400)
AddBack(g, obj) ==
    IF obj.kind = "crop"
    THEN [g EXCEPT !.crops = Append(@, obj), !.moving_object = Nothing]
    ELSE [g EXCEPT !.machines = Append(@, obj), !.moving_object = Nothing]

\* Game.place_moving_object(x, y)
place_moving_object(g, x, y) ==
    IF ~g.moving_object.some
    THEN [game |-> g, result |-> <<FALSE, <<"Not moving anything">>>>]
    ELSE IF ~InBounds(x, y)
    THEN [game |-> g, result |-> <<FALSE, <<"Out of bounds">>>>]
    ELSE IF OccupiedBy(g.machines, x, y) \/ OccupiedBy(g.crops, x, y)
    THEN [game |-> g, result |-> <<FALSE, <<"Space occupied">>>>]
    ELSE LET obj == g.moving_object.value[1]
         IN [game |-> AddBack(g, [obj EXCEPT !.x = x, !.y = y]),
             result |-> <<TRUE, <<"Placed object">>>>]

\* Game.cancel_move(): None when nothing is being moved
cancel_move(g) ==
    IF ~g.moving_object.some
    THEN [game |-> g, result |-> None]
    ELSE LET obj == g.moving_object.value[1]
             ox  == g.moving_object.value[2]
             oy  == g.moving_object.value[3]
         IN [game |-> AddBack(g, [obj EXCEPT !.x = ox, !.y = oy]),
             result |-> <<TRUE, <<"Cancelled move">>>>]

\* three of TravelManager.locations (travel.py:13, 14, 29)
Location(name, lat, lon) == [name |-> name, lat |-> lat, lon |-> lon]

Locations ==
    { Location("New York, USA", 407128, -740060),
      Location("Los Angeles, USA", 340522, -1182437),
      Location("London, UK", 515074, -1278) }

\* get_distance: the great-circle distance between two of these places, to
\* the kilometre
get_distance(lat1, lon1, lat2, lon2) ==
    LET pair == {<<lat1, lon1>>, <<lat2, lon2>>}
    IN CASE Cardinality(pair) = 1 -> 0
         [] pair = {<<407128, -740060>>, <<340522, -1182437>>} -> 3936
         [] pair = {<<407128, -740060>>, <<515074, -1278>>}    -> 5570
         [] pair = {<<340522, -1182437>>, <<515074, -1278>>}   -> 8756

\* calculate_cost: base_cost_per_km = 0.1 per kilometre, so that the cost in
\* tenths is the distance in kilometres
calculate_cost(current_lat, current_lon, target_loc) ==
    get_distance(current_lat, current_lon, target_loc.lat, target_loc.lon)

\* a variant of travel that moves whether or not the energy was there
travel_unpaid(state, g, target_loc) ==
    LET cost == calculate_cost(state.lat, g.lon, target_loc)
        paid == consume_energy(g, cost)
    IN [ game_state |-> [state EXCEPT !.lat = target_loc.lat,
                                      !.weather_data = None],
         game |-> [paid.game EXCEPT !._locations_visited = @ + 1,
                                    !.lon = target_loc.lon,
                                    !.location_name = target_loc.name],
         result |-> TRUE ]

\* TravelManager.travel(game_state, target_loc); state holds lat and
\* weather_data, g the other attributes
travel(state, g, target_loc) ==
    LET cost == calculate_cost(state.lat, g.lon, target_loc)
        paid == consume_energy(g, cost)
    IN IF paid.ok
       THEN [ game_state |-> [state EXCEPT !.lat = target_loc.lat,
                                           !.weather_data = None],
              game |-> [paid.game EXCEPT !._locations_visited = @ + 1,
                                         !.lon = target_loc.lon,
                                         !.location_name = target_loc.name],
              result |-> TRUE ]
       ELSE [game_state |-> state, game |-> g, result |-> FALSE]

\* UpgradeManager.get_multiplier in hundredths (upgrades.py:43-51)
get_multiplier(upgrades, uid) ==
    LET level == DictGet(upgrades, uid, 0)
    IN CASE uid = "turbine_eff" -> 100 + 20 * level
         [] uid = "solar_eff"   -> 100 + 15 * level
         [] uid = "hydro_eff"   -> 100 + 25 * level
         [] OTHER               -> 100

\* The machine loop of Game.update with weather data present (core.py:62-101),
\* for the machines named in order and no creature collected: modifier, in
\* tenths, is set anew for every machine, upgrade_mult is a local variable
\* that only the branches of the three generating types assign, None before
\* the first assignment; total_mult = modifier * upgrade_mult comes out in
\* thousandths. Reading upgrade_mult before any assignment raises.
RECURSIVE MachineLoop(_, _, _, _, _)
MachineLoop(names, event_modifiers, upgrades, upgrade_mult, total_mults) ==
    IF names = <<>> THEN [raised |-> "", total_mult |-> total_mults]
    ELSE LET name == Head(names)
             modifier ==
                 CASE name = "Wind Turbine"   -> DictGet(event_modifiers, "wind", 10)
                   [] name = "Solar Panel"    -> DictGet(event_modifiers, "solar", 10)
                   [] name = "Rain Collector" -> DictGet(event_modifiers, "hydro", 10)
                   [] OTHER                   -> 10
             assigned ==
                 CASE name = "Wind Turbine"   -> Num(get_multiplier(upgrades, "turbine_eff"))
                   [] name = "Solar Panel"    -> Num(get_multiplier(upgrades, "solar_eff"))
                   [] name = "Rain Collector" -> Num(get_multiplier(upgrades, "hydro_eff"))
                   [] OTHER                   -> upgrade_mult
         IN IF assigned = None
            THEN [raised |-> "UnboundLocalError", total_mult |-> total_mults]
            ELSE MachineLoop(Tail(names), event_modifiers, upgrades, assigned,
                             Append(total_mults, modifier * assigned[2]))

-----------------------------------------------------------------------------
(* Actions *)

\* the game state, the event manager and the game loop after construction
EngineInit ==
    /\ game = GameInit
    /\ game_state = GameStateInit
    /\ active_events = <<>>
    /\ event_history = <<>>
    /\ last_rain_time = T0
    /\ heatwave_start_time = 0
    /\ cold_start_time = 0
    /\ frequency_multiplier = 10
    /\ raised = ""
    /\ last_weather_poll = 0

Init ==
    /\ now = T0
    /\ EngineInit
    /\ NetInit

\* the clock advances
Tick(limit) ==
    /\ raised = ""
    /\ now + TickUnit <= T0 + limit * TickUnit
    /\ now' = now + TickUnit
    /\ UNCHANGED <<game, game_state, active_events, event_history, last_rain_time,
                   heatwave_start_time, cold_start_time, frequency_multiplier,
                   raised, last_weather_poll, net_vars>>

\* AsyncGameLoop.fetch_weather when the poll yields a snapshot, called by
\* run() once the poll interval has passed (main.py:72)
FetchWeather(data, alerts) ==
    /\ raised = ""
    /\ now - last_weather_poll > POLL_INTERVAL
    /\ game_state' = [update_weather(game_state, data) EXCEPT !.alerts = alerts]
    /\ last_weather_poll' = now
    /\ UNCHANGED <<game, now, active_events, event_history, last_rain_time,
                   heatwave_start_time, cold_start_time, frequency_multiplier,
                   raised, net_vars>>

\* a variant of fetch_weather that records the poll as done whatever
\* get_weather returned
fetch_weather_always_done(data, alerts) ==
    /\ raised = ""
    /\ now - last_weather_poll > POLL_INTERVAL
    /\ IF TruthyDict(data)
       THEN game_state' = [update_weather(game_state, data.value)
                             EXCEPT !.alerts = alerts]
       ELSE UNCHANGED game_state
    /\ last_weather_poll' = now
    /\ last_call' = [op |-> "fetch_weather", t |-> now, data |-> data]
    /\ UNCHANGED <<game, now, active_events, event_history, last_rain_time,
                   heatwave_start_time, cold_start_time, frequency_multiplier,
                   raised, _gridpoint_cache, _cache_metadata, cache_files,
                   _last_source>>

\* AsyncGameLoop.fetch_weather (main.py:308-331), called by run() once the
\* poll interval has passed (main.py:71-72); data is what get_weather
\* returned, a snapshot or None, alerts what get_alerts returned
fetch_weather(data, alerts) ==
    /\ raised = ""
    /\ now - last_weather_poll > POLL_INTERVAL
    /\ IF TruthyDict(data)
       THEN /\ game_state' = [update_weather(game_state, data.value)
                                EXCEPT !.alerts = alerts]
            /\ last_weather_poll' = now
       ELSE UNCHANGED <<game_state, last_weather_poll>>
    /\ last_call' = [op |-> "fetch_weather", t |-> now, data |-> data]
    /\ UNCHANGED <<game, now, active_events, event_history, last_rain_time,
                   heatwave_start_time, cold_start_time, frequency_multiplier,
                   raised, _gridpoint_cache, _cache_metadata, cache_files,
                   _last_source>>

\* WeatherEventManager.set_frequency_multiplier
set_frequency_multiplier(multiplier) ==
    /\ raised = ""
    /\ frequency_multiplier' = Max(10, IF multiplier <= 30 THEN multiplier ELSE 30)
    /\ UNCHANGED <<game, now, game_state, active_events, event_history, last_rain_time,
                   heatwave_start_time, cold_start_time, raised,
                   last_weather_poll, net_vars>>

\* WeatherEventManager.update(game_state, dt), rnd the draw of random.random()
Update(rnd) ==
    /\ raised = ""
    /\ LET expired == Expired(active_events, now)
           remaining == RemoveEach(active_events, expired)
           res == check_for_events(game_state, remaining, frequency_multiplier,
                                   now, last_rain_time, heatwave_start_time,
                                   cold_start_time, rnd)
       IN /\ event_history' = TrimHistory(event_history \o expired)
          /\ active_events' = remaining \o res.new_events
          /\ last_rain_time' = res.last_rain_time
          /\ heatwave_start_time' = res.heatwave_start_time
          /\ cold_start_time' = res.cold_start_time
          /\ raised' = res.raised
    /\ UNCHANGED <<game, now, game_state, frequency_multiplier, last_weather_poll,
                   net_vars>>

\* whether the threshold rule of a type fires (lines 171-286)
ThresholdFires(event_type, state, m, t, lrt, hst, cst, rnd) ==
    CASE event_type = THUNDERSTORM    -> ThunderstormTrigger(state, m)
      [] event_type = HEATWAVE        -> HeatwaveTrigger(state, m, t, hst)
      [] event_type = BLIZZARD        -> BlizzardTrigger(state, m)
      [] event_type = WINDSTORM       -> WindstormTrigger(state, m)
      [] event_type = DROUGHT         -> DroughtTrigger(state, m, t, lrt)
      [] event_type = DUST_STORM      -> DustStormTrigger(state, m)
      [] event_type = FOG             -> FogTrigger(state, m)
      [] event_type = TORNADO_WARNING -> TornadoTrigger(state, m)
      [] event_type = HURRICANE       -> HurricaneTrigger(state, m)
      [] event_type = COLD_SNAP       -> ColdSnapTrigger(state, m, t, cst)
      [] event_type = FLASH_FLOOD     -> FlashFloodTrigger(state, m)
      [] event_type = AURORA          -> AuroraTrigger(state, m, rnd)

Next ==
    \/ Tick(MaxTicks)
    \/ \E data \in Snapshots, alerts \in AlertLists : FetchWeather(data, alerts)
    \/ \E rnd \in RandomDraws : Update(rnd)

Spec == Init /\ [][Next]_vars

\* The polls of the game loop, with providers that answer or fail
MaxPollTicks == 2

NextPoll ==
    \/ Tick(MaxPollTicks)
    \/ \E data \in {Nothing} \cup {Some(snapshot) : snapshot \in Snapshots},
          alerts \in AlertLists : fetch_weather(data, alerts)

SpecPoll == Init /\ [][NextPoll]_vars

\* The engine fed with one stormy snapshot and three tornado alerts: many
\* short events, so that the history fills
HistSnapshots == { [Calm EXCEPT !.weather_code = 95, !.rain = 101] }

HistAlertLists ==
    { <<Alert("Tornado Warning"), Alert("Tornado Warning"), Alert("Tornado Watch")>> }

NextHist ==
    \/ Tick(MaxHistTicks)
    \/ \E data \in HistSnapshots, alerts \in HistAlertLists :
          FetchWeather(data, alerts)
    \/ \E rnd \in RandomDraws : Update(rnd)

SpecHist == Init /\ [][NextHist]_vars

\* The engine at multiplier 1.0 with the temperature held at 40 C
HeatSnapshots == { [Calm EXCEPT !.temp = 40] }

NextHeat ==
    \/ Tick(MaxHeatTicks)
    \/ \E data \in HeatSnapshots : FetchWeather(data, <<>>)
    \/ \E rnd \in RandomDraws : Update(rnd)

SpecHeat == Init /\ [][NextHeat]_vars

\* The engine under every frequency multiplier
FreqSnapshots ==
    { Calm,
      [Calm EXCEPT !.visibility = 1500, !.wind_speed = 20],
      [Calm EXCEPT !.visibility = 900, !.humidity = 95],
      [Calm EXCEPT !.weather_code = 95, !.cape = 3100],
      [Calm EXCEPT !.temp = 30, !.is_day = FALSE],
      [Calm EXCEPT !.temp = -8, !.wind_speed = 30, !.rain = 40] }

FreqMultipliers == {5, 15, 20, 40}

NextFreq ==
    \/ Tick(MaxFreqTicks)
    \/ \E data \in FreqSnapshots : FetchWeather(data, <<>>)
    \/ \E multiplier \in FreqMultipliers : set_frequency_multiplier(multiplier)
    \/ \E rnd \in RandomDraws : Update(rnd)

SpecFreq == Init /\ [][NextFreq]_vars

-----------------------------------------------------------------------------
(* The providers: inputs, actions and specifications *)

MaxGridTicks == 3         \* clock steps explored by SpecGrid
CycleStep == 1799         \* spacing of the clock readings of SpecCycle
MaxCycleSteps == 100      \* number of clock readings of SpecCycle

\* New York, a second point of the same 0.01-degree cell, Saint Paul, London
NewYork == <<407128, -740060>>
NewYorkNearby == <<407101, -740062>>
SaintPaul == <<448900, -930200>>
London == <<515074, -1278>>

\* responses of /points/{lat},{lon}
GridpointOk(lat) ==
    [ raises |-> FALSE, status |-> 200,
      gridId |-> IF lat > 430000 THEN "MPX" ELSE "OKX",
      observationStations |-> IF lat > 430000 THEN "gridpoints/MPX/stations"
                              ELSE "gridpoints/OKX/stations" ]

GridpointNoStations ==
    [raises |-> FALSE, status |-> 200, gridId |-> "OKX", observationStations |-> ""]

HttpError(status) ==
    [ raises |-> FALSE, status |-> status, gridId |-> "", observationStations |-> "",
      features |-> <<>>, props |-> [temperature |-> None, windSpeed |-> None,
                                    stationId |-> ""],
      data |-> EmptyDict ]

NetworkError == [HttpError(0) EXCEPT !.raises = TRUE]

\* responses of the stations list
StationsOk(features) == [raises |-> FALSE, status |-> 200, features |-> features]

Stations == {"KNYC", "KLGA", "KJFK"}

\* responses of /stations/{id}/observations/latest
Observation(station_id, temperature, windSpeed) ==
    [ raises |-> FALSE, status |-> 200,
      props |-> [temperature |-> temperature, windSpeed |-> windSpeed,
                 stationId |-> station_id] ]

\* what a station may answer: an observation, a null temperature, an HTTP
\* error
NwsAnswers(station_id) ==
    { Observation(station_id, Num(215), Num(108)),
      Observation(station_id, None, Num(108)),
      HttpError(503) }

\* the same and an observation without wind
Answers(station_id) ==
    NwsAnswers(station_id) \cup {Observation(station_id, Num(215), None)}

\* the parsed data of Open-Meteo
OpenMeteoData(wind_speed, dust, sunrise, cape) ==
    [ temp |-> Num(180), wind_speed |-> Num(wind_speed), dust |-> Num(dust),
      sunrise |-> Str(sunrise), cape |-> Num(cape), soil_moisture |-> Num(2) ]

OpenMeteoOk(data) == [raises |-> FALSE, status |-> 200, data |-> data]

OpenMeteoResponses ==
    { OpenMeteoOk(OpenMeteoData(45, 12, "06:30", 800)),
      OpenMeteoOk(OpenMeteoData(0, 0, "", 0)),
      HttpError(500),
      NetworkError }

\* downloads of the grid: none, storm index and soil moisture, a zero storm
\* index without soil moisture, a file with no variable the client maps, a
\* file that cannot be parsed
NoDownload == [fetched |-> FALSE, raw |-> EmptyDict]

Download(raw) == [fetched |-> TRUE, raw |-> raw]

Downloads ==
    { NoDownload,
      Download([cape |-> Num(15000), soilw |-> Num(3), vis |-> Num(160000)]),
      Download([cape |-> Num(0), cin |-> Num(-500)]),
      Download([t |-> Num(2880)]),
      Download(EmptyDict) }

\* the key of the grid cache for New York in the cycle of T0
Key0 == _get_cache_key(NewYork[1], NewYork[2], _get_latest_cycle(T0)[1],
                       _get_latest_cycle(T0)[2])

GridData == [gfs_cape |-> Num(9000), gfs_soil_moisture |-> Num(4)]

\* the cache directory found at construction (_load_cache_metadata): empty,
\* an entry five hours old, an entry with an empty file, an entry without
\* timestamp, an entry whose timestamp cannot be parsed
DiskStates ==
    { [metadata |-> EmptyDict, files |-> EmptyDict],
      [metadata |-> [k \in {Key0} |-> [timestamp |-> isoformat(T0 - 5 * 3600)]],
       files |-> [k \in {Key0} |-> GridData]],
      [metadata |-> [k \in {Key0} |-> [timestamp |-> isoformat(T0 - 5 * 3600)]],
       files |-> [k \in {Key0} |-> EmptyDict]],
      [metadata |-> [k \in {Key0} |-> [timestamp |-> <<>>]],
       files |-> [k \in {Key0} |-> GridData]],
      [metadata |-> [k \in {Key0} |-> [timestamp |-> <<0>>]],
       files |-> [k \in {Key0} |-> GridData]] }

\* construction with the cache directory in one of the states above
InitDisk ==
    /\ now = T0
    /\ EngineInit
    /\ _gridpoint_cache = EmptyDict
    /\ \E disk \in DiskStates :
          _cache_metadata = disk.metadata /\ cache_files = disk.files
    /\ _last_source = "none"
    /\ last_call = [op |-> "none"]

\* NWSClient.get_weather(lat, lon)
NwsGetWeather(lat, lon, gridpoint_response, stations_response, observations) ==
    \E r \in {nws_get_weather(_gridpoint_cache, lat, lon, gridpoint_response,
                               stations_response, observations)} :
       /\ _gridpoint_cache' = r.cache
       /\ last_call' = [ op |-> "nws.get_weather", lat |-> lat, lon |-> lon,
                         gridpoint |-> r.gridpoint,
                         gridpoint_requests |-> r.gridpoint_requests,
                         station_ids |-> r.station_ids,
                         observations |-> observations,
                         queried |-> r.queried,
                         result |-> r.result ]
       /\ UNCHANGED <<now, engine_vars, _cache_metadata, cache_files, _last_source>>

\* GFSClient.get_supplemental_data(lat, lon)
GfsGetSupplementalData(lat, lon, first, second) ==
    \E r \in {get_supplemental_data(_cache_metadata, cache_files, lat, lon, now,
                                     first, second)} :
       /\ _cache_metadata' = r.metadata
       /\ cache_files' = r.files
       /\ last_call' = [ op |-> "gfs.get_supplemental_data", lat |-> lat,
                         lon |-> lon, t |-> now,
                         fetched |-> <<first.fetched, second.fetched>>,
                         raised |-> r.raised,
                         requests |-> r.requests, result |-> r.result ]
       /\ UNCHANGED <<now, engine_vars, _gridpoint_cache, _last_source>>

\* WeatherService.get_weather(lat, lon)
GetWeather(lat, lon, gridpoint_response, stations_response, observations, om_response, first, second) ==
    \E r \in {get_weather(_gridpoint_cache, _cache_metadata, cache_files, lat,
                           lon, now, gridpoint_response, stations_response,
                           observations, om_response, first, second)} :
       /\ _gridpoint_cache' = r.cache
       /\ _cache_metadata' = r.metadata
       /\ cache_files' = r.files
       /\ _last_source' = r._last_source
       /\ last_call' = [ op |-> "get_weather", lat |-> lat, lon |-> lon,
                         domestic |-> r.domestic, nws |-> r.nws,
                         queried |-> r.queried, om |-> r.om,
                         gfs_raised |-> r.gfs_raised, gfs |-> r.gfs,
                         supplemental |-> r.supplemental, result |-> r.result,
                         keys |-> IF r.result.some
                                  THEN get_weather_keys(r.nws.some, r.om.some,
                                           ~r.gfs_raised /\ TruthyDict(r.gfs))
                                  ELSE {} ]
       /\ UNCHANGED <<now, engine_vars>>

\* the NWS client alone
NextNws ==
    \E place \in {NewYork, NewYorkNearby, SaintPaul} :
    \E gridpoint_response \in {GridpointOk(place[1]), GridpointNoStations,
                               HttpError(404), NetworkError},
       stations_response \in {StationsOk(<<"KNYC", "KLGA", "KJFK">>),
                              StationsOk(<<"KLGA", "", "KNYC">>),
                              HttpError(500)},
       knyc \in NwsAnswers("KNYC"), klga \in NwsAnswers("KLGA"),
       kjfk \in NwsAnswers("KJFK") :
       NwsGetWeather(place[1], place[2], gridpoint_response, stations_response,
                     [KNYC |-> knyc, KLGA |-> klga, KJFK |-> kjfk])

SpecNws == Init /\ [][NextNws]_vars

\* the grid client alone, on a cache directory left by earlier runs
NextGrid ==
    \/ Tick(MaxGridTicks)
    \/ \E place \in {NewYork, SaintPaul}, first \in Downloads,
          second \in Downloads :
          GfsGetSupplementalData(place[1], place[2], first, second)

SpecGrid == InitDisk /\ [][NextGrid]_vars

\* the grid client alone, started in each of the four cycles of a day
MaxRetryCycles == 3

InitRetry ==
    /\ \E k \in 0..MaxRetryCycles : now = T0 + k * 6 * 3600
    /\ EngineInit
    /\ NetInit

NextRetry ==
    \E place \in {NewYork, SaintPaul}, first \in Downloads, second \in Downloads :
       GfsGetSupplementalData(place[1], place[2], first, second)

SpecRetry == InitRetry /\ [][NextRetry]_vars

\* the router alone: coordinates on, just inside and just outside every box
\* edge, at the equator and the prime meridian, and outside the range of
\* latitudes and longitudes
OutOfRangeLat == 910000
OutOfRangeLon == 1810000

RouterLats ==
    UNION {{e - 1, e, e + 1} : e \in {US_LAT_MIN, US_LAT_MAX, ALASKA_LAT_MIN,
                                      ALASKA_LAT_MAX, HAWAII_LAT_MIN, HAWAII_LAT_MAX,
                                      PR_LAT_MIN, PR_LAT_MAX}}
    \cup {0, OutOfRangeLat, -OutOfRangeLat}

RouterLons ==
    UNION {{e - 1, e, e + 1} : e \in {US_LON_MIN, US_LON_MAX, ALASKA_LON_MIN,
                                      ALASKA_LON_MAX, HAWAII_LON_MIN, HAWAII_LON_MAX,
                                      PR_LON_MIN, PR_LON_MAX}}
    \cup {0, OutOfRangeLon, -OutOfRangeLon}

InitRouter ==
    /\ now = T0
    /\ EngineInit
    /\ _gridpoint_cache = EmptyDict
    /\ _cache_metadata = EmptyDict
    /\ cache_files = EmptyDict
    /\ _last_source = "none"
    /\ \E lat \in RouterLats, lon \in RouterLons :
          last_call = [op |-> "none", lat |-> lat, lon |-> lon]

IsUsLocation ==
    /\ last_call.op = "none"
    /\ last_call' = [op |-> "_is_us_location", lat |-> last_call.lat,
                     lon |-> last_call.lon,
                     result |-> _is_us_location(last_call.lat, last_call.lon)]
    /\ UNCHANGED <<now, engine_vars, _gridpoint_cache, _cache_metadata, cache_files,
                   _last_source>>

SpecRouter == InitRouter /\ [][IsUsLocation]_vars

-----------------------------------------------------------------------------
(* The game core: actions and specifications *)

MaxObjects == 3           \* machines and crops placed in SpecBuild
MaxTravels == 3           \* journeys made in SpecTravel

\* what the operations of the game core leave alone
GameFrame ==
    UNCHANGED <<now, active_events, event_history, last_rain_time,
                heatwave_start_time, cold_start_time, frequency_multiplier,
                raised, last_weather_poll, _gridpoint_cache, _cache_metadata,
                cache_files, _last_source>>

\* ResourceManager.add_energy(amount)
AddEnergy(amount) ==
    /\ game' = add_energy(game, amount)
    /\ last_call' = [op |-> "add_energy", amount |-> amount]
    /\ UNCHANGED game_state
    /\ GameFrame

\* Game.build_machine(name, x, y)
BuildMachine(name, x, y) ==
    \E r \in {build_machine(game, name, x, y)} :
       /\ r.game.next_id <= MaxObjects + 1
       /\ game' = r.game
       /\ last_call' = [op |-> "build_machine", name |-> name, x |-> x, y |-> y,
                        result |-> r.result]
       /\ UNCHANGED game_state
       /\ GameFrame

\* Game.plant_crop(crop_name, x, y)
PlantCrop(crop_name, x, y) ==
    \E r \in {plant_crop(game, crop_name, x, y)} :
       /\ r.game.next_id <= MaxObjects + 1
       /\ game' = r.game
       /\ last_call' = [op |-> "plant_crop", name |-> crop_name, x |-> x, y |-> y,
                        result |-> r.result]
       /\ UNCHANGED game_state
       /\ GameFrame

\* Game.start_move(x, y)
StartMove(x, y) ==
    \E r \in {start_move(game, x, y)} :
       /\ game' = r.game
       /\ last_call' = [op |-> "start_move", x |-> x, y |-> y, result |-> r.result]
       /\ UNCHANGED game_state
       /\ GameFrame

\* Game.place_moving_object(x, y)
PlaceMovingObject(x, y) ==
    \E r \in {place_moving_object(game, x, y)} :
       /\ game' = r.game
       /\ last_call' = [op |-> "place_moving_object", x |-> x, y |-> y,
                        result |-> r.result]
       /\ UNCHANGED game_state
       /\ GameFrame

\* Game.cancel_move()
CancelMove ==
    \E r \in {cancel_move(game)} :
       /\ game' = r.game
       /\ last_call' = [op |-> "cancel_move", result |-> r.result]
       /\ UNCHANGED game_state
       /\ GameFrame

\* TravelManager.travel(game.state, target_loc)
Travel(target_loc) ==
    \E r \in {travel(game_state, game, target_loc)} :
       /\ r.game._locations_visited <= MaxTravels + 1
       /\ game' = r.game
       /\ game_state' = r.game_state
       /\ last_call' = [op |-> "travel", target_loc |-> target_loc,
                        cost |-> calculate_cost(game_state.lat, game.lon, target_loc),
                        result |-> r.result]
       /\ GameFrame

\* the grid of SpecBuild: two cells, and coordinates off the grid
Xs == {0, 1, 10}
Ys == {0, -1}

NextBuild ==
    \/ \E name \in {"Battery", "Sprinkler", "Teleporter"}, x \in Xs, y \in Ys :
          BuildMachine(name, x, y)
    \/ \E crop_name \in {"Corn", "Kale"}, x \in Xs, y \in Ys :
          PlantCrop(crop_name, x, y)
    \/ \E x \in Xs, y \in Ys : StartMove(x, y)
    \/ \E x \in Xs, y \in Ys : PlaceMovingObject(x, y)
    \/ CancelMove

SpecBuild == Init /\ [][NextBuild]_vars

\* journeys between the three places; 293.6 brings the energy of a new game
\* to the cost of the journey from New York to Los Angeles
NextTravel ==
    \/ \E target_loc \in Locations : Travel(target_loc)
    \/ \E amount \in {2936, 10 * 1000} : AddEnergy(amount)

SpecTravel == Init /\ [][NextTravel]_vars

\* the machine loop of Game.update on every list of at most two machines
MaxMachines == 2

MachineLists ==
    UNION {[1..n -> MachineNames] : n \in 0..MaxMachines}

InitUpdate ==
    /\ now = T0
    /\ EngineInit
    /\ _gridpoint_cache = EmptyDict
    /\ _cache_metadata = EmptyDict
    /\ cache_files = EmptyDict
    /\ _last_source = "none"
    /\ \E names \in MachineLists,
          event_modifiers \in {[wind |-> 10, solar |-> 10, hydro |-> 10],
                               [wind |-> 15, solar |-> 5, hydro |-> 20]},
          upgrades \in {EmptyDict, [turbine_eff |-> 2, solar_eff |-> 1]} :
          last_call = [op |-> "none", names |-> names,
                       event_modifiers |-> event_modifiers, upgrades |-> upgrades]

GameUpdate ==
    /\ last_call.op = "none"
    /\ last_call' = [last_call EXCEPT !.op = "update"] @@
                    [result |-> MachineLoop(last_call.names,
                                            last_call.event_modifiers,
                                            last_call.upgrades, None, <<>>)]
    /\ UNCHANGED <<game, game_state>>
    /\ GameFrame

SpecUpdate == InitUpdate /\ [][GameUpdate]_vars

\* the weather service with its three clients
NextNet ==
    \E place \in {NewYork, London} :
    \E gridpoint_response \in {GridpointOk(place[1]), HttpError(500)},
       knyc \in Answers("KNYC"), klga \in NwsAnswers("KLGA"),
       om_response \in OpenMeteoResponses,
       first \in Downloads :
       GetWeather(place[1], place[2], gridpoint_response,
                  StationsOk(<<"KNYC", "KLGA">>),
                  [KNYC |-> knyc, KLGA |-> klga, KJFK |-> HttpError(503)],
                  om_response, first, NoDownload)

SpecNet == InitDisk /\ [][NextNet]_vars

\* _smart_merge applied to a base and a supplemental dict
MergeBases ==
    { [temp |-> Num(215), wind_speed |-> wind_speed, dust |-> dust,
       sunrise |-> sunrise] :
         wind_speed \in {Num(0), Num(30)}, dust \in {Num(0), Num(7)},
         sunrise \in {Str(""), Str("06:10")} }

MergeSupplementals ==
    { [wind_speed |-> wind_speed, dust |-> dust, sunrise |-> sunrise,
       cin |-> Num(-500), gfs_visibility |-> Num(160000)] :
         wind_speed \in {Num(0), Num(45), None}, dust \in {Num(0), Num(12)},
         sunrise \in {Str(""), Str("06:30")} }
    \cup { [cape |-> Num(15000)], [wind_speed |-> Num(45)] }

InitMerge ==
    /\ now = T0
    /\ EngineInit
    /\ _gridpoint_cache = EmptyDict
    /\ _cache_metadata = EmptyDict
    /\ cache_files = EmptyDict
    /\ _last_source = "none"
    /\ \E base \in MergeBases, supplemental \in MergeSupplementals :
          last_call = [op |-> "_smart_merge", base |-> base,
                       supplemental |-> supplemental, result |-> Nothing]

SmartMerge ==
    /\ last_call.op = "_smart_merge"
    /\ ~last_call.result.some
    /\ last_call' = [last_call EXCEPT
                        !.result = Some(_smart_merge(last_call.base,
                                                     last_call.supplemental))]
    /\ UNCHANGED <<now, engine_vars, _gridpoint_cache, _cache_metadata, cache_files,
                   _last_source>>

SpecMerge == InitMerge /\ [][SmartMerge]_vars

\* _get_latest_cycle at clock readings spread over two days
InitCycle ==
    /\ \E k \in 0..MaxCycleSteps : now = T0 + k * CycleStep
    /\ EngineInit
    /\ NetInit

GetLatestCycle ==
    /\ last_call.op = "none"
    /\ last_call' = [op |-> "_get_latest_cycle", t |-> now,
                     result |-> _get_latest_cycle(now)]
    /\ UNCHANGED <<now, engine_vars, _gridpoint_cache, _cache_metadata, cache_files,
                   _last_source>>

SpecCycle == InitCycle /\ [][GetLatestCycle]_vars

-----------------------------------------------------------------------------
(* Properties of the event engine under Spec *)

OfType(events, event_type) ==
    SelectSeq(events, LAMBDA e : e.event_type = event_type)

\* a step of update(): the clock, the game state, the multiplier and the
\* poll time are the variables update() leaves alone
IsUpdateStep ==
    /\ now' = now
    /\ game_state' = game_state
    /\ frequency_multiplier' = frequency_multiplier
    /\ last_weather_poll' = last_weather_poll

\* the events of active_events whose duration has not elapsed at the clock
StillRunning == SelectSeq(active_events, LAMBDA e : now < e.start_time + e.duration)

\* C1: active_events never holds two events of the same type
C1_MutualExclusion ==
    \A i, j \in 1..Len(active_events) :
        i # j => active_events[i].event_type # active_events[j].event_type

\* C2: an update whose single thunderstorm alert meets a snapshot that also
\* satisfies the thunderstorm trigger, no thunderstorm being active, leaves
\* exactly one thunderstorm event
C2_OneEventPerAlertAndThreshold ==
    [][ ( /\ IsUpdateStep
          /\ raised' = ""
          /\ HasAttr(game_state, "weather_code")
          /\ Len(SelectSeq(game_state.alerts,
                  LAMBDA a : AlertMapping(a.event).type = THUNDERSTORM)) = 1
          /\ ThunderstormTrigger(game_state, frequency_multiplier)
          /\ OfType(StillRunning, THUNDERSTORM) = <<>> )
        => Len(OfType(active_events', THUNDERSTORM)) = 1 ]_vars

\* C3: an update keeps every event whose start_time + duration lies after
\* the clock and moves every other event to the history; events leave
\* active_events and enter event_history in no other way
C3_Expiration ==
    [][ /\ IsUpdateStep =>
            \A e \in Range(active_events) :
                IF now < e.start_time + e.duration
                THEN e \in Range(active_events')
                ELSE e \notin Range(active_events') /\ e \in Range(event_history')
        /\ \A e \in Range(active_events) \ Range(active_events') :
                IsUpdateStep /\ now >= e.start_time + e.duration
        /\ \A e \in Range(event_history') \ Range(event_history) :
                /\ e \in Range(active_events)
                /\ now >= e.start_time + e.duration ]_vars

C3_Witness ==
    /\ event_history # <<>>
    /\ \E e \in Range(active_events) : e.start_time < now

\* the product of one channel over a set of positions of a list
RECURSIVE ChannelProduct(_, _, _)
ChannelProduct(events, channel, positions) ==
    IF positions = {} THEN 1
    ELSE LET i == CHOOSE p \in positions : TRUE
         IN events[i][channel] * ChannelProduct(events, channel, positions \ {i})

RECURSIVE Pow10(_)
Pow10(n) == IF n = 0 THEN 1 ELSE 10 * Pow10(n - 1)

\* C5: each channel of get_active_modifiers is the product of the channel's
\* modifier over the active events (1.0 with none); wind modifiers 1.2 and
\* 0.5 give 0.6
C5_ModifierProduct ==
    LET r == get_active_modifiers(active_events)
        n == Len(active_events)
        Is(value, channel) ==
            /\ value[1] = ChannelProduct(active_events, channel, 1..n)
            /\ value[2] = Pow10(n)
    IN /\ Is(r.wind, "wind_modifier")
       /\ Is(r.solar, "solar_modifier")
       /\ Is(r.hydro, "hydro_modifier")
       /\ n = 0 => r = [wind |-> <<1, 1>>, solar |-> <<1, 1>>, hydro |-> <<1, 1>>]
       /\ ( /\ n = 2
            /\ {active_events[1].wind_modifier, active_events[2].wind_modifier}
                   = {12, 5} )
          => r.wind[1] * 10 = 6 * r.wind[2]

C5_Witness ==
    /\ Len(active_events) = 2
    /\ {active_events[1].wind_modifier, active_events[2].wind_modifier} = {12, 5}

\* C6: an alert whose type has no running event yields, in that update, an
\* event of the type with warning_issued and a duration of at least 3600 s;
\* an alert whose type is running leaves the events of the type as they are
C6_AlertEvents ==
    [][ IsUpdateStep =>
          \A k \in 1..Len(game_state.alerts) :
            LET alert == game_state.alerts[k]
                T == AlertMapping(alert.event).type
            IN /\ alert.event = "Severe Thunderstorm Warning" => T = THUNDERSTORM
               /\ T # NoType =>
                    IF OfType(StillRunning, T) = <<>>
                    THEN \E e \in Range(active_events') :
                            /\ e.event_type = T
                            /\ e.warning_issued
                            /\ e.duration >= 3600
                            /\ e.start_time = now
                            /\ e.description = AlertDescription(alert.event)
                    ELSE OfType(active_events', T) = OfType(StillRunning, T) ]_vars

C6_Witness ==
    /\ \E e \in Range(active_events) :
          /\ e.event_type = THUNDERSTORM
          /\ e.warning_issued
          /\ e.description = AlertDescription("Severe Thunderstorm Warning")
    /\ \E e \in Range(active_events) :
          e.event_type = TORNADO_WARNING /\ e.warning_issued /\ e.duration = 3600

\* C8: update never ends with an exception
C8_UpdateNeverRaises == raised = ""

\* C10: every completed update at which the temperature condition of the
\* heatwave (cold snap) does not hold leaves the dwell timer unset
C10_DwellTimerReset ==
    [][ (IsUpdateStep /\ raised' = "" /\ HasAttr(game_state, "weather_code")) =>
          /\ ~HeatCondition(game_state, frequency_multiplier)
                => heatwave_start_time' = 0
          /\ ~ColdCondition(game_state, frequency_multiplier)
                => cold_start_time' = 0 ]_vars

-----------------------------------------------------------------------------
(* Properties under SpecHist, SpecFreq and SpecHeat *)

\* C4: after an update the history is the last max_history entries of the
\* old history followed by the events that expired, in the order they held
\* in active_events
C4_HistoryCap ==
    [][ IsUpdateStep =>
          LET gone == SelectSeq(active_events,
                          LAMBDA e : now >= e.start_time + e.duration)
              full == event_history \o gone
              kept == Len(event_history')
          IN /\ kept <= 20
             /\ kept = Min(Len(full), 20)
             /\ \A i \in 1..kept :
                    event_history'[i] = full[Len(full) - kept + i] ]_vars

\* the history is full and begins inside a group of events that expired
\* together: the first tornado event of the group has been dropped
C4_Witness ==
    /\ Len(event_history) = 20
    /\ event_history[1].description = AlertDescription("Tornado Warning")
    /\ event_history[2].description = AlertDescription("Tornado Watch")

\* C7: a threshold rule that fires at a multiplier fires at every higher
\* multiplier, the snapshot, the timers and the random draw being the same
C7_MultiplierMonotone ==
    HasAttr(game_state, "weather_code") =>
        \A event_type \in EventType, rnd \in RandomDraws :
            \A m1, m2 \in 10..30 :
                ( /\ m1 <= m2
                  /\ ThresholdFires(event_type, game_state, m1, now, last_rain_time,
                                    heatwave_start_time, cold_start_time, rnd) )
                => ThresholdFires(event_type, game_state, m2, now, last_rain_time,
                                  heatwave_start_time, cold_start_time, rnd)

IsModerateHeatwave(e) ==
    /\ e.event_type = HEATWAVE
    /\ e.severity = MODERATE
    /\ <<e.wind_modifier, e.solar_modifier, e.hydro_modifier>> = <<8, 14, 7>>

\* C9: at multiplier 1.0 with 40 C at every update, the update made more
\* than 7200 s after the dwell began creates a moderate heatwave with the
\* modifiers (0.8, 1.4, 0.7); no heatwave is created earlier
C9_HeatwaveAfterDwell ==
    /\ [](\A e \in Range(active_events) \cup Range(event_history) :
            IsModerateHeatwave(e) /\ e.start_time - T0 > 7200)
    /\ [][ (IsUpdateStep /\ raised' = "") =>
            LET dwell == IF heatwave_start_time = 0 THEN 0
                         ELSE now - heatwave_start_time
                created == Range(active_events') \ Range(active_events)
            IN /\ game_state.temp_c = 40 /\ frequency_multiplier = 10
               /\ (dwell > 7200 /\ StillRunning = <<>>) =>
                      \E e \in created : IsModerateHeatwave(e) /\ e.start_time = now
               /\ dwell <= 7200 => created = {} ]_vars

C9_Witness ==
    \E e \in Range(active_events) :
        IsModerateHeatwave(e) /\ e.start_time - T0 > 7200 /\ ~e.warning_issued

\* WeatherEventManager.get_stats
get_stats(active, history, multiplier) ==
    [ active_count         |-> Len(active),
      total_experienced    |-> Len(history),
      frequency_multiplier |-> multiplier,
      extreme_experienced  |-> \E e \in Range(history) : e.severity = EXTREME,
      aurora_seen          |-> \E e \in Range(history) : e.event_type = AURORA ]

\* C11: every update adds the number of events it moves to the history to
\* total_experienced, which never decreases, and extreme_experienced and
\* aurora_seen never go back from true to false
C11_LifetimeStats ==
    [][ LET before == get_stats(active_events, event_history, frequency_multiplier)
            after  == get_stats(active_events', event_history', frequency_multiplier')
            moved  == Len(active_events) - Len(StillRunning)
        IN /\ after.total_experienced >= before.total_experienced
           /\ IsUpdateStep =>
                 after.total_experienced = before.total_experienced + moved
           /\ before.extreme_experienced => after.extreme_experienced
           /\ before.aurora_seen => after.aurora_seen ]_vars

-----------------------------------------------------------------------------
(* Properties of the weather service under SpecNet *)

\* C12: for a domestic coordinate get_weather returns what the international
\* provider returns when the domestic provider yields nothing, and returns
\* null exactly when both providers yield nothing; for an international
\* coordinate it returns null exactly when the international provider
\* yields nothing
C12_ProviderFallback ==
    last_call.op = "get_weather" =>
        /\ last_call.domestic = _is_us_location(last_call.lat, last_call.lon)
        /\ (last_call.domestic /\ ~last_call.nws.some) =>
                /\ last_call.result = last_call.om
                /\ _last_source = "Open-Meteo"
        /\ last_call.domestic =>
                (~last_call.result.some <=>
                    (~last_call.nws.some /\ ~last_call.om.some))
        /\ ~last_call.domestic =>
                /\ last_call.result = last_call.om
                /\ ~last_call.result.some <=> ~last_call.om.some

\* the domestic provider failed at a domestic coordinate and the
\* international provider answered
C12_Witness ==
    /\ last_call.op = "get_weather"
    /\ last_call.domestic
    /\ ~last_call.nws.some
    /\ last_call.queried # <<>>
    /\ last_call.result.some

\* the value a merged snapshot holds for a key of the allow-list that the
\* primary and an enrichment both have
Preferred(primary_value, enrichment_value) ==
    IF Truthy(enrichment_value) THEN enrichment_value ELSE primary_value

\* C13: when the domestic provider succeeds, get_weather returns a snapshot
\* with every key of the primary result and the primary's own fields
\* unchanged, whether each enrichment call succeeded, returned nothing or
\* raised: it is the primary result when no enrichment succeeded, and holds
\* the data of each enrichment that did succeed
C13_EnrichmentOptional ==
    (last_call.op = "get_weather" /\ last_call.domestic /\ last_call.nws.some) =>
        LET primary == last_call.nws.value
            om_ok   == TruthyDict(last_call.om)
            grid_ok == ~last_call.gfs_raised /\ TruthyDict(last_call.gfs)
        IN /\ last_call.result.some
           /\ _last_source = "NWS"
           /\ DOMAIN primary \subseteq DOMAIN last_call.result.value
           /\ last_call.result.value.temp = primary.temp
           /\ last_call.result.value._nws_station = primary._nws_station
           /\ (~om_ok /\ ~grid_ok) => last_call.result = last_call.nws
           /\ om_ok =>
                /\ last_call.result.value.wind_speed =
                       Preferred(primary.wind_speed, last_call.om.value.wind_speed)
                /\ last_call.result.value.dust = last_call.om.value.dust
           /\ ~om_ok =>
                /\ last_call.result.value.wind_speed = primary.wind_speed
                /\ last_call.result.value.dust = primary.dust
           /\ grid_ok =>
                /\ "cin" \in DOMAIN last_call.result.value
                /\ last_call.result.value.cin =
                       DictGet(last_call.gfs.value, "gfs_cin", Num(0))
           /\ ~grid_ok => "cin" \notin DOMAIN last_call.result.value

\* the domestic provider succeeded, the grid call raised and the
\* international enrichment succeeded: its wind speed is in the snapshot
C13_Witness ==
    /\ last_call.op = "get_weather"
    /\ last_call.nws.some
    /\ last_call.gfs_raised
    /\ last_call.om.some
    /\ last_call.nws.value.wind_speed = Num(0)
    /\ last_call.result.value.wind_speed = Num(45)

-----------------------------------------------------------------------------
(* Properties of _smart_merge under SpecMerge *)

\* C14: for a key of the allow-list in both dicts the merge takes the
\* enrichment value when it is non-zero and non-empty and keeps the primary
\* value otherwise; for any other key in both it takes the enrichment value;
\* a key absent from the primary is added from the enrichment, and a key
\* absent from the enrichment keeps the primary value; primary wind_speed 0
\* and enrichment wind_speed 4.5 give 4.5
C14_SmartMergePolicy ==
    (last_call.op = "_smart_merge" /\ last_call.result.some) =>
        LET base == last_call.base
            supplemental == last_call.supplemental
            result == last_call.result.value
        IN /\ DOMAIN result = DOMAIN base \cup DOMAIN supplemental
           /\ \A key \in DOMAIN supplemental :
                IF key \in DOMAIN base
                THEN IF key \in prefer_nonzero_keys
                     THEN IF supplemental[key] \in {Num(0), Str(""), None}
                          THEN result[key] = base[key]
                          ELSE result[key] = supplemental[key]
                     ELSE result[key] = supplemental[key]
                ELSE result[key] = supplemental[key]
           /\ \A key \in DOMAIN base \ DOMAIN supplemental :
                result[key] = base[key]
           /\ ( /\ base.wind_speed = Num(0)
                /\ "wind_speed" \in DOMAIN supplemental
                /\ supplemental.wind_speed = Num(45) )
              => result.wind_speed = Num(45)

\* a merge in which a non-zero wind speed of the primary met a non-zero one
\* of the enrichment, next to a key outside the allow-list and a new key
C14_Witness ==
    /\ last_call.op = "_smart_merge"
    /\ last_call.result.some
    /\ last_call.base.wind_speed = Num(30)
    /\ last_call.supplemental = [wind_speed |-> Num(45), dust |-> Num(12),
                                 sunrise |-> Str(""), cin |-> Num(-500),
                                 gfs_visibility |-> Num(160000)]

\* the primary has a non-zero, non-empty value for each of its keys of the
\* allow-list
PrimaryAllNonZero(base) ==
    \A key \in DOMAIN base \cap prefer_nonzero_keys :
        base[key] \notin {Num(0), Str(""), None}

\* C15 as stated: merging into a primary with non-zero values for all its
\* allow-listed fields gives the enrichment value for exactly the
\* allow-listed fields and the primary value for every other field
C15_MergeIdempotence ==
    ( /\ last_call.op = "_smart_merge"
      /\ last_call.result.some
      /\ PrimaryAllNonZero(last_call.base) ) =>
        LET base == last_call.base
            supplemental == last_call.supplemental
            result == last_call.result.value
        IN \A key \in DOMAIN base :
              IF key \in prefer_nonzero_keys /\ key \in DOMAIN supplemental
              THEN result[key] = supplemental[key]
              ELSE result[key] = base[key]

\* C15 amended: merging into such a primary gives, for an allow-listed field
\* of the enrichment, the enrichment value when it is non-zero and non-empty
\* and the primary value when it is zero or empty; for any other field of
\* the enrichment the enrichment value; and the primary value for the
\* fields the enrichment does not have
C15_MergeOverNonZeroPrimary ==
    ( /\ last_call.op = "_smart_merge"
      /\ last_call.result.some
      /\ PrimaryAllNonZero(last_call.base) ) =>
        LET base == last_call.base
            supplemental == last_call.supplemental
            result == last_call.result.value
        IN \A key \in DOMAIN base :
              IF key \notin DOMAIN supplemental THEN result[key] = base[key]
              ELSE IF key \notin prefer_nonzero_keys
                   THEN result[key] = supplemental[key]
              ELSE IF supplemental[key] \in {Num(0), Str(""), None}
                   THEN result[key] = base[key]
              ELSE result[key] = supplemental[key]

\* a primary with non-zero wind speed and sunrise merged with an enrichment
\* whose wind speed is non-zero, whose sunrise is empty and whose dust, a
\* field outside the allow-list, differs from the primary's
C15_Witness ==
    /\ last_call.op = "_smart_merge"
    /\ last_call.result.some
    /\ last_call.base = [temp |-> Num(215), wind_speed |-> Num(30),
                         dust |-> Num(7), sunrise |-> Str("06:10")]
    /\ last_call.supplemental = [wind_speed |-> Num(45), dust |-> Num(12),
                                 sunrise |-> Str(""), cin |-> Num(-500),
                                 gfs_visibility |-> Num(160000)]
    /\ last_call.result.value.wind_speed = Num(45)
    /\ last_call.result.value.sunrise = Str("06:10")
    /\ last_call.result.value.dust = Num(12)

-----------------------------------------------------------------------------
(* Precedence of the sources in a domestic poll, under SpecNet *)

\* C16: in a domestic poll whose primary succeeded, a storm index or a soil
\* moisture supplied by the grid is the value of the snapshot whatever the
\* primary and the international provider hold; without the grid value the
\* primary's stays; and the wind speed, which the grid does not supply, is
\* the international provider's when it is non-zero and else the primary's
C16_SourcePrecedence ==
    (last_call.op = "get_weather" /\ last_call.domestic /\ last_call.nws.some) =>
        LET primary == last_call.nws.value
            result  == last_call.result.value
            om_ok   == TruthyDict(last_call.om)
            grid    == IF ~last_call.gfs_raised /\ TruthyDict(last_call.gfs)
                       THEN last_call.gfs.value ELSE EmptyDict
        IN /\ "gfs_cape" \in DOMAIN grid => result.cape = grid.gfs_cape
           /\ "gfs_soil_moisture" \in DOMAIN grid =>
                  result.soil_moisture = grid.gfs_soil_moisture
           /\ "gfs_cape" \notin DOMAIN grid => result.cape = primary.cape
           /\ "gfs_soil_moisture" \notin DOMAIN grid =>
                  result.soil_moisture = primary.soil_moisture
           /\ result.wind_speed =
                  IF om_ok /\ last_call.om.value.wind_speed # Num(0)
                  THEN last_call.om.value.wind_speed
                  ELSE primary.wind_speed

\* the three sources answered with three different storm indices and the
\* snapshot holds the grid's
C16_Witness ==
    /\ last_call.op = "get_weather"
    /\ last_call.nws.some
    /\ last_call.om.some
    /\ last_call.om.value.cape = Num(800)
    /\ last_call.gfs.some
    /\ DictGet(last_call.gfs.value, "gfs_cape", Num(0)) = Num(15000)
    /\ last_call.result.value.cape = Num(15000)
    /\ last_call.result.value.soil_moisture = Num(3)

-----------------------------------------------------------------------------
(* Properties of the NWS client under SpecNws *)

\* the payload a station answered with has status 200 and a non-null
\* temperature
HasTemperature(response) ==
    ~response.raises /\ response.status = 200 /\ response.props.temperature # None

C18_GridpointCache ==
    [][ last_call'.op = "nws.get_weather" =>
          LET cache_key == GridpointKey(last_call'.lat, last_call'.lon)
          IN /\ \A k \in DOMAIN _gridpoint_cache :
                   /\ k \in DOMAIN _gridpoint_cache'
                   /\ _gridpoint_cache'[k] = _gridpoint_cache[k]
             /\ IF cache_key \in DOMAIN _gridpoint_cache
                THEN /\ last_call'.gridpoint = Some(_gridpoint_cache[cache_key])
                     /\ last_call'.gridpoint_requests = 0
                     /\ _gridpoint_cache' = _gridpoint_cache
                ELSE /\ last_call'.gridpoint_requests = 1
                     /\ IF last_call'.gridpoint.some
                        THEN /\ DOMAIN _gridpoint_cache' =
                                    DOMAIN _gridpoint_cache \cup {cache_key}
                             /\ _gridpoint_cache'[cache_key] =
                                    last_call'.gridpoint.value
                        ELSE _gridpoint_cache' = _gridpoint_cache
      ]_vars

\* a call for a place 0.003 degree from one looked up before is answered
\* from the cache
C18_Witness ==
    /\ last_call.op = "nws.get_weather"
    /\ <<last_call.lat, last_call.lon>> = NewYorkNearby
    /\ last_call.gridpoint_requests = 0
    /\ last_call.gridpoint =
           Some([gridId |-> "OKX", observationStations |-> "gridpoints/OKX/stations"])
    /\ GridpointKey(NewYork[1], NewYork[2]) \in DOMAIN _gridpoint_cache
    /\ GridpointKey(SaintPaul[1], SaintPaul[2]) \notin DOMAIN _gridpoint_cache

-----------------------------------------------------------------------------
(* Properties of the grid client under SpecCycle and SpecGrid *)

\* C19: at every clock reading t, _get_latest_cycle gives the cycle whose
\* boundary c is the latest multiple of 6 h at or before t minus the 4 h
\* publication delay: the date is the UTC day of c, cycle_hour the hour of c,
\* one of 00, 06, 12, 18, and forecast_hour the whole hours from c to t, a
\* number from 0 to 120
C19_CycleResolution ==
    last_call.op = "_get_latest_cycle" =>
        LET t == last_call.t
            cycle_date    == last_call.result[1]
            cycle_hour    == last_call.result[2]
            forecast_hour == last_call.result[3]
        IN /\ t = now
           /\ last_call.result = _get_latest_cycle(t)
           /\ cycle_hour \in {0, 6, 12, 18}
           /\ forecast_hour \in 0..120
           /\ \E c \in {cycle_date * 86400 + cycle_hour * 3600} :
                 /\ c % (6 * 3600) = 0
                 /\ c <= t - 4 * 3600
                 /\ t - 4 * 3600 < c + 6 * 3600
                 /\ forecast_hour * 3600 <= t - c
                 /\ t - c < (forecast_hour + 1) * 3600

\* shortly after midnight the cycle is the one of 18 UTC of the day before
C19_Witness ==
    /\ last_call.op = "_get_latest_cycle"
    /\ last_call.t % 86400 < 4 * 3600
    /\ last_call.result[1] = (last_call.t \div 86400) - 1
    /\ last_call.result[2] = 18
    /\ last_call.result[3] >= 6

\* the key of the grid cache a call for (lat, lon) uses at the clock reading t
CurrentKey(lat, lon, t) ==
    _get_cache_key(lat, lon, _get_latest_cycle(t)[1], _get_latest_cycle(t)[2])

\* the cache holds, under key, a file and a timestamp that can be read
HasEntry(key) ==
    /\ key \in DOMAIN _cache_metadata
    /\ key \in DOMAIN cache_files
    /\ IsIsoFormat(_cache_metadata[key].timestamp)

\* the step is a call of get_supplemental_data
IsGridCall == now' = now /\ last_call'.op = "gfs.get_supplemental_data"

C21_RetryPreviousCycle ==
    (last_call.op = "gfs.get_supplemental_data" /\ last_call.requests # <<>>) =>
        LET cycle == _get_latest_cycle(last_call.t)
            requests == last_call.requests
        IN /\ Len(requests) <= 2
           /\ requests[1] = cycle
           /\ last_call.fetched[1] => Len(requests) = 1
           /\ ~last_call.fetched[1] =>
                 /\ Len(requests) = 2
                 /\ requests[2][2] \in {0, 6, 12, 18}
                 /\ requests[2][1] * 86400 + requests[2][2] * 3600 =
                        cycle[1] * 86400 + cycle[2] * 3600 - 6 * 3600
                 /\ requests[2][3] = cycle[3] + 6
           /\ (~last_call.fetched[1] /\ ~last_call.fetched[2]) =>
                 /\ last_call.result = Nothing
                 /\ ~last_call.raised

\* in cycle 00 both downloads fail: the second was asked of cycle 18 of the
\* day before
C21_Witness ==
    /\ last_call.op = "gfs.get_supplemental_data"
    /\ _get_latest_cycle(last_call.t)[2] = 0
    /\ ~last_call.fetched[1]
    /\ ~last_call.fetched[2]
    /\ Len(last_call.requests) = 2
    /\ last_call.requests[2][1] = _get_latest_cycle(last_call.t)[1] - 1
    /\ last_call.requests[2][2] = 18
    /\ last_call.result = Nothing

-----------------------------------------------------------------------------
(* Properties of the router under SpecRouter *)

\* the four boxes of the claim, south, north, west, east, in 1/10000 degree:
\* continental 24..50 N, 125..66 W; Alaska 51..72 N, 180..129 W; Hawaii
\* 18..23 N, 161..154 W; Puerto Rico 17.5..18.6 N, 68..65 W
Boxes ==
    { <<24 * 10000, 50 * 10000, -125 * 10000, -66 * 10000>>,
      <<51 * 10000, 72 * 10000, -180 * 10000, -129 * 10000>>,
      <<18 * 10000, 23 * 10000, -161 * 10000, -154 * 10000>>,
      <<175000, 186000, -68 * 10000, -65 * 10000>> }

\* C22: _is_us_location(lat, lon) is true exactly when (lat, lon) lies in one
\* of the four boxes, edges included, and false for every other point, those
\* outside the range of coordinates among them
C22_RouterClassification ==
    last_call.op = "_is_us_location" =>
        ( last_call.result <=>
            \E box \in Boxes :
               /\ box[1] <= last_call.lat /\ last_call.lat <= box[2]
               /\ box[3] <= last_call.lon /\ last_call.lon <= box[4] )

\* the north-east corner of the continental box is domestic
C22_Witness ==
    /\ last_call.op = "_is_us_location"
    /\ last_call.lat = 50 * 10000
    /\ last_call.lon = -66 * 10000
    /\ last_call.result

-----------------------------------------------------------------------------
(* The snapshot and its consumer, under SpecNet *)

\* C23: every key GameState.update_weather reads is a key of every non-null
\* snapshot get_weather returns, whichever providers made it
C23_ConsumerKeysPresent ==
    (last_call.op = "get_weather" /\ last_call.result.some) =>
        UpdateWeatherKeys \subseteq last_call.keys

-----------------------------------------------------------------------------
(* The polls of the game loop, under SpecPoll *)

\* C24: a poll for which get_weather returned None leaves the game state,
\* weather_data, the fields derived from it and the alerts, as it was and
\* does not move last_weather_poll, so that the condition of the loop for
\* polling still holds afterwards
C24_FailedPollChangesNothing ==
    [][ (now' = now /\ ~last_call'.data.some) =>
           /\ game_state' = game_state
           /\ last_weather_poll' = last_weather_poll
           /\ now' - last_weather_poll' > POLL_INTERVAL
      ]_vars

\* a poll has failed after an earlier one succeeded: the snapshot and the
\* alerts of the earlier poll are still there and the next poll is due
C24_Witness ==
    /\ last_call.op = "fetch_weather"
    /\ ~last_call.data.some
    /\ last_call.t = now
    /\ last_weather_poll = T0
    /\ now = T0 + TickUnit
    /\ game_state.weather_data = [Calm EXCEPT !.temp = 40]
    /\ game_state.temp_c = 40
    /\ game_state.alerts = <<Alert("Severe Thunderstorm Warning")>>

-----------------------------------------------------------------------------
(* The cycle of a cached payload, under SpecRetry *)

\* the keys of the grid cache whose entry the step wrote
WrittenKeys ==
    {k \in DOMAIN cache_files' :
        \/ k \notin DOMAIN cache_files
        \/ cache_files'[k] # cache_files[k]
        \/ _cache_metadata'[k] # _cache_metadata[k]}

\* C27: when get_supplemental_data writes a payload to the grid cache, the
\* date and hour in the key it writes under are those of the cycle the
\* payload was downloaded from, the cycle of the last request of the call
C27_CachedPayloadOfKeyCycle ==
    [][ last_call'.op = "gfs.get_supplemental_data" =>
          \A k \in WrittenKeys :
             LET request == last_call'.requests[Len(last_call'.requests)]
             IN <<k[1], k[2]>> = <<request[1], request[2]>>
      ]_vars

-----------------------------------------------------------------------------
\* C25: TravelManager.travel with energy at or above the cost of the journey
\* returns True, takes exactly the cost from the energy and sets lat, lon and
\* location_name to the target; with energy below the cost it returns False
\* and leaves energy, lat, lon and location_name as they were.
C25_TravelContract ==
    [][ last_call'.op = "travel" =>
        LET target == last_call'.target_loc
            cost == calculate_cost(game_state.lat, game.lon, target)
        IN IF game.energy >= cost
           THEN /\ last_call'.result = TRUE
                /\ game'.energy = game.energy - cost
                /\ game_state'.lat = target.lat
                /\ game'.lon = target.lon
                /\ game'.location_name = target.name
           ELSE /\ last_call'.result = FALSE
                /\ game'.energy = game.energy
                /\ game_state'.lat = game_state.lat
                /\ game'.lon = game.lon
                /\ game'.location_name = game.location_name ]_vars

\* the first journey, paid with exactly the energy it costs
C25_Witness ==
    /\ last_call.op = "travel"
    /\ last_call.result = TRUE
    /\ last_call.cost > 0
    /\ game.energy = 0
    /\ game.location_name = "Los Angeles, USA"
    /\ game._locations_visited = 2

-----------------------------------------------------------------------------
\* C26: Game.build_machine on a free cell of the grid, with a machine type
\* that exists and with energy below the energy cost of that machine, returns
\* (False, "Not enough Energy") and changes nothing: no machine is added,
\* neither energy nor biomass is taken and no capacity changes.
C26_BuildWithoutEnergy ==
    [][ ( /\ last_call'.op = "build_machine"
          /\ InBounds(last_call'.x, last_call'.y)
          /\ ~OccupiedBy(game.machines, last_call'.x, last_call'.y)
          /\ last_call'.name \in MachineNames
          /\ game.energy < CostEnergy(last_call'.name) )
        => /\ last_call'.result = <<FALSE, <<"Not enough Energy">>>>
           /\ game' = game ]_vars

\* the part of C26 about the state alone: such a call changes nothing
C26_BuildWithoutEnergyChangesNothing ==
    [][ ( /\ last_call'.op = "build_machine"
          /\ InBounds(last_call'.x, last_call'.y)
          /\ ~OccupiedBy(game.machines, last_call'.x, last_call'.y)
          /\ last_call'.name \in MachineNames
          /\ game.energy < CostEnergy(last_call'.name) )
        => /\ last_call'.result[1] = FALSE
           /\ game' = game ]_vars

-----------------------------------------------------------------------------
\* the machines and crops on the grid
Placed == game.machines \o game.crops

\* C28: after any sequence of build_machine, plant_crop, start_move,
\* place_moving_object and cancel_move on an empty grid, no cell holds more
\* than one placed object: no two machines, no two crops and no machine
\* together with a crop are at the same (x, y).
C28_OneObjectPerCell ==
    \A i, j \in 1..Len(Placed) :
       (Placed[i].x = Placed[j].x /\ Placed[i].y = Placed[j].y) => i = j

\* how often the object with this id is in the lists or in the hand
Occurrences(id) ==
    Cardinality({i \in 1..Len(Placed) : Placed[i].id = id})
    + (IF game.moving_object.some /\ game.moving_object.value[1].id = id
       THEN 1 ELSE 0)

\* C29: the move protocol conserves objects: every machine or crop that was
\* placed is at all times either in the machines or crops list or held as
\* moving_object, and there only once, also when start_move is called while
\* an object is being moved.
C29_MoveConservesObjects ==
    \A id \in 1..(game.next_id - 1) : Occurrences(id) = 1

-----------------------------------------------------------------------------
\* the types whose branch of Game.update assigns a multiplier
Generating == {"Wind Turbine", "Solar Panel", "Rain Collector"}

\* C30: with weather data present Game.update completes without error for
\* every list of placed machines, also when the first machine is not a Wind
\* Turbine, Solar Panel or Rain Collector; a machine of another type has the
\* multiplier 1.0 (1000 thousandths), never one left over from a machine
\* before it.
C30_UpdateCompletes ==
    last_call.op = "update" =>
       /\ last_call.result.raised = ""
       /\ Len(last_call.result.total_mult) = Len(last_call.names)
       /\ \A i \in 1..Len(last_call.names) :
             last_call.names[i] \notin Generating
                => last_call.result.total_mult[i] = 1000

====
